---- MODULE Spec2Model ----
(***************************************************************************)
(* Model of the AI career roadmap generator:                               *)
(*   - the document walker of WeeklyRoadmapGeneratorService                *)
(*     (app/services/weekly_roadmap_generator.py), which turns the parsed  *)
(*     AI reply of one month into a MonthlyRoadmap, dropping malformed     *)
(*     quests and weeks;                                                   *)
(*   - the /generate endpoint (app/api/endpoints/roadmap.py), which runs   *)
(*     one unit per month through asyncio.gather, in batches of 6 for 12   *)
(*     months and more, and assembles the MultiMonthRoadmap;               *)
(*   - the reply parser, GeminiClient.generate_content with safe_parse_json*)
(*     and its two sanitizers (app/utils/gemini_client.py,                 *)
(*     app/utils/json_sanitizer.py);                                       *)
(*   - the activity normalizer format_activity and the passes that apply   *)
(*     it (app/utils/validation.py).                                       *)
(* JSON values are records tagged by their field k; names and slots are    *)
(* TLA+ strings, the texts that are parsed or normalized are sequences of  *)
(* characters; dates are day offsets from date.today().                    *)
(***************************************************************************)
EXTENDS Integers, Sequences, FiniteSets, TLC

\* ------------------------------------------------------------------ bounds
MaxQuests == 2      \* quests per week in the documents that vary the quests
MaxWeeks == 3       \* weeks per document in the documents that vary the weeks
MaxGoals == 2       \* elements per goal list
MaxMonths == 13     \* largest duration_months requested

\* ------------------------------------------------------- JSON values (json.loads)
JStr(s) == [k |-> "str", s |-> s]
JInt(n) == [k |-> "int", n |-> n]
JNull == [k |-> "null"]
JList(items) == [k |-> "list", items |-> items]
JDict(pairs) == [k |-> "dict", pairs |-> pairs]
IsStr(v) == v.k = "str"

\* All sequences over S of length 0..n.
SeqsUpTo(S, n) == UNION {[1..m -> S] : m \in 0..n}

\* --------------------------------------------------------------- the models
\* WeeklyTask (pydantic): task_name, time_slot, time_commitment and practice are
\* str, resources is List[str]; a null value is rejected with a ValidationError.
WeeklyTaskAccepts(quest) ==
    /\ IsStr(quest.task_name)
    /\ IsStr(quest.time_slot)
    /\ IsStr(quest.time_commitment)

\* WeekPlan (pydantic): week_number is an int.
WeekPlanAccepts(week_data) == week_data.week_number.k = "int"

\* MonthlyRoadmap (pydantic): overall_goals is List[str].
MonthlyRoadmapAccepts(overall_goals) ==
    \A i \in 1..Len(overall_goals) : IsStr(overall_goals[i])

\* MultiMonthRoadmap (pydantic): the class declares user_id, persona_type,
\* total_months, monthly_roadmaps, start_date and end_date; combined_goals is
\* commented out of the class, and pydantic ignores a keyword that is no field.
MultiMonthRoadmap(user_id, persona_type, total_months, monthly_roadmaps, combined_goals, start_date, end_date) ==
    [user_id |-> user_id, persona_type |-> persona_type,
     total_months |-> total_months, monthly_roadmaps |-> monthly_roadmaps,
     start_date |-> start_date, end_date |-> end_date]

\* ------------------------------------------------------------------ text
\* A text is the sequence of its characters, each a string of length one; the
\* backquote is written BT.
QT == "\""
BS == "\\"
NL == "\n"
CR == "\r"
TAB == "\t"
BT == "backquote"
Fence == <<BT, BT, BT>>
FenceJson == Fence \o <<"j", "s", "o", "n">>
ActivityKey == <<QT, "a", "c", "t", "i", "v", "i", "t", "y", QT, ":">>

\* str.strip() and the regex class \s take these off; json.loads skips them.
Whitespace == {" ", NL, CR, TAB}
\* The characters of [\x00-\x09\x0B\x0C\x0E-\x1F\x7F].
StrippedControls == {TAB}
\* The characters below \x20, which json.loads refuses inside a string.
ControlCharacters == {NL, CR, TAB}

\* text[i:] starts with pat (i counts from 1).
StartsWithAt(text, i, pat) ==
    /\ i >= 1
    /\ i + Len(pat) - 1 <= Len(text)
    /\ \A j \in DOMAIN pat : text[i + j - 1] = pat[j]

startswith(text, pat) == StartsWithAt(text, 1, pat)
endswith(text, pat) == StartsWithAt(text, Len(text) - Len(pat) + 1, pat)

\* pat in text
In(pat, text) == \E i \in 1..(Len(text) + 1) : StartsWithAt(text, i, pat)

\* text.find(pat) and text.rfind(pat), counted from 1; 0 when pat is not in text.
RECURSIVE FindFrom(_, _, _)
FindFrom(text, pat, i) ==
    IF i + Len(pat) - 1 > Len(text) THEN 0
    ELSE IF StartsWithAt(text, i, pat) THEN i
    ELSE FindFrom(text, pat, i + 1)
find(text, pat) == FindFrom(text, pat, 1)
rfind(text, pat) ==
    IF In(pat, text)
    THEN CHOOSE i \in 1..(Len(text) + 1) :
            /\ StartsWithAt(text, i, pat)
            /\ \A j \in (i + 1)..(Len(text) + 1) : ~StartsWithAt(text, j, pat)
    ELSE 0

\* text.replace(old, new), old not empty: the occurrences from the left, not
\* overlapping.
RECURSIVE replace(_, _, _)
replace(text, old, new) ==
    LET at == find(text, old)
    IN IF at = 0 THEN text
       ELSE SubSeq(text, 1, at - 1) \o new
            \o replace(SubSeq(text, at + Len(old), Len(text)), old, new)

\* text.count(pat), pat not empty.
RECURSIVE count(_, _)
count(text, pat) ==
    IF text = <<>> THEN 0
    ELSE IF startswith(text, pat)
    THEN 1 + count(SubSeq(text, Len(pat) + 1, Len(text)), pat)
    ELSE count(Tail(text), pat)

RECURSIVE lstrip(_, _)
lstrip(text, chars) ==
    IF text # <<>> /\ Head(text) \in chars THEN lstrip(Tail(text), chars) ELSE text
RECURSIVE rstrip(_, _)
rstrip(text, chars) ==
    IF text # <<>> /\ text[Len(text)] \in chars
    THEN rstrip(SubSeq(text, 1, Len(text) - 1), chars) ELSE text
strip(text) == rstrip(lstrip(text, Whitespace), Whitespace)

\* text.split(sep), sep not empty.
RECURSIVE split(_, _)
split(text, sep) ==
    LET at == find(text, sep)
    IN IF at = 0 THEN <<text>>
       ELSE <<SubSeq(text, 1, at - 1)>>
            \o split(SubSeq(text, at + Len(sep), Len(text)), sep)

\* text.split(sep, 1)
split_once(text, sep) ==
    LET at == find(text, sep)
    IN IF at = 0 THEN <<text>>
       ELSE <<SubSeq(text, 1, at - 1), SubSeq(text, at + Len(sep), Len(text))>>

\* sep.join(texts)
RECURSIVE join(_, _)
join(sep, texts) ==
    IF texts = <<>> THEN <<>>
    ELSE IF Len(texts) = 1 THEN texts[1]
    ELSE texts[1] \o sep \o join(sep, Tail(texts))

\* re.sub of a character class by the empty string.
remove(text, chars) == SelectSeq(text, LAMBDA c : c \notin chars)

\* ------------------------------------------------------------- validation.py
Digits == {"0", "1", "2", "3", "4", "5", "6", "7", "8", "9"}
DigitChar(d) == <<"0", "1", "2", "3", "4", "5", "6", "7", "8", "9">>[d + 1]

\* str(n) for a natural number n.
RECURSIVE str_of_int(_)
str_of_int(n) ==
    IF n < 10 THEN <<DigitChar(n)>>
    ELSE Append(str_of_int(n \div 10), DigitChar(n % 10))

\* The length of the longest run of digits line starts with.
RECURSIVE LeadingDigits(_)
LeadingDigits(line) ==
    IF line # <<>> /\ Head(line) \in Digits THEN 1 + LeadingDigits(Tail(line)) ELSE 0

\* re.match(r'^\d+\.', line)
StartsWithNumber(line) ==
    LET digits == LeadingDigits(line)
    IN /\ digits >= 1
       /\ digits < Len(line)
       /\ line[digits + 1] = "."

\* re.match(r'^\d+\.$', line), for a line that holds no newline
IsNumberAndDot(line) ==
    /\ StartsWithNumber(line)
    /\ Len(line) = LeadingDigits(line) + 1

\* [line.strip() for line in text.split('\n') if line.strip()]
StrippedLines(text) ==
    LET lines == split(text, <<NL>>)
    IN SelectSeq([i \in DOMAIN lines |-> strip(lines[i])], LAMBDA line : line # <<>>)

validate_activity_format(activity) ==
    LET lines == StrippedLines(activity)
    IN /\ activity # <<>>
       /\ lines # <<>>
       /\ \A i \in DOMAIN lines : StartsWithNumber(lines[i])

\* str(item) for a value of the reply.
str(item) ==
    CASE item.k = "str" -> item.s
      [] item.k = "int" -> str_of_int(item.n)
      [] OTHER -> <<"N", "o", "n", "e">>

\* The text of an activity given as a list: its items, as text and stripped,
\* the empty ones left out, joined by newlines.
ListText(items) ==
    join(<<NL>>, SelectSeq([i \in DOMAIN items |-> strip(str(items[i]))],
                           LAMBDA item : item # <<>>))

\* The loop of the branch "already properly formatted" over the lines from
\* line i on.
RECURSIVE ProcessLines(_, _)
ProcessLines(lines, i) ==
    IF i > Len(lines) THEN <<>>
    ELSE LET stripped == strip(lines[i])
         IN (IF stripped = <<>> THEN <<>>
             ELSE (IF StartsWithNumber(stripped) /\ i > 1
                   THEN <<NL>> \o stripped ELSE stripped)
                  \o (IF IsNumberAndDot(stripped) THEN <<" ">> ELSE <<>>))
            \o ProcessLines(lines, i + 1)

\* for i in range(10, 0, -1): replace(f"{i}. ", f"\n{i}. "), from i down.
RECURSIVE SplitAtNumbers(_, _)
SplitAtNumbers(text, i) ==
    IF i = 0 THEN text
    ELSE SplitAtNumbers(
            replace(text, str_of_int(i) \o <<".", " ">>,
                    <<NL>> \o str_of_int(i) \o <<".", " ">>),
            i - 1)

\* The loop that merges the lines broken inside one step: [merged_lines,
\* current_line] after the lines.
RECURSIVE MergeLines(_, _)
MergeLines(st, lines) ==
    IF lines = <<>> THEN st
    ELSE MergeLines(
            IF StartsWithNumber(Head(lines))
            THEN [merged_lines |-> IF st.current_line # <<>>
                                   THEN Append(st.merged_lines, st.current_line)
                                   ELSE st.merged_lines,
                  current_line |-> Head(lines)]
            ELSE [merged_lines |-> st.merged_lines,
                  current_line |-> IF st.current_line # <<>>
                                   THEN st.current_line \o <<" ">> \o Head(lines)
                                   ELSE Head(lines)],
            Tail(lines))

\* The loop that numbers the lines without a number, counter being the next
\* number to give.
RECURSIVE NumberLines(_, _)
NumberLines(lines, counter) ==
    IF lines = <<>> THEN <<>>
    ELSE IF StartsWithNumber(Head(lines))
    THEN <<Head(lines)>> \o NumberLines(Tail(lines), counter)
    ELSE <<str_of_int(counter) \o <<".", " ">> \o Head(lines)>>
         \o NumberLines(Tail(lines), counter + 1)

\* format_activity on a text: the two branches.
FormatText(activity) ==
    IF validate_activity_format(activity)
    THEN lstrip(replace(SplitAtNumbers(ProcessLines(split(activity, <<NL>>), 1), 10),
                        <<NL, NL>>, <<NL>>),
                {NL})
    ELSE LET merged == MergeLines([merged_lines |-> <<>>, current_line |-> <<>>],
                                  StrippedLines(activity))
         IN join(<<NL>>,
                 NumberLines(IF merged.current_line # <<>>
                             THEN Append(merged.merged_lines, merged.current_line)
                             ELSE merged.merged_lines,
                             1))

\* format_activity: the activity, a string, a list or another value, as the
\* text of its numbered steps.
format_activity(activity) ==
    LET text == IF activity.k = "list" THEN ListText(activity.items) ELSE str(activity)
    IN FormatText(remove(replace(replace(text, <<CR, NL>>, <<NL>>), <<CR>>, <<NL>>),
                         StrippedControls))

\* The activity of every quest of the replies: one step without its number.
Steps == JStr(<<"a">>)

\* ------------------------------------- WeeklyRoadmapGeneratorService (one month)
RequiredWeekFields == {"week_number", "theme", "quests"}
RequiredTaskFields ==
    {"task_type", "task_name", "time_slot", "time_commitment", "activity"}

\* TavilySearchClient.search: {"results": []} when no API key is configured and
\* when the provider raises, the provider's response otherwise. The state of
\* the provider for a quest is the quest's field search.
search(quest) ==
    IF quest.search = "no_key" THEN [results |-> <<>>]
    ELSE IF quest.search = "raises" THEN [results |-> <<>>]
    ELSE IF quest.search = "empty" THEN [results |-> <<>>]
    ELSE [results |-> <<[title |-> "r", url |-> "https://r/steps"]>>]

\* TavilySearchClient.extract_resource_info: one resource per result.
extract_resource_info(search_results) ==
    [i \in DOMAIN search_results.results |->
        [title |-> search_results.results[i].title,
         url |-> search_results.results[i].url]]

\* The urls of the resources found; [] on no resource and on any exception.
enrich_resources_with_web_search(quest) ==
    LET resources == extract_resource_info(search(quest))
    IN [i \in DOMAIN resources |-> resources[i].url]

process_quest_enrichment_fatal(quest) ==
    IF ~(RequiredTaskFields \subseteq quest.has) THEN <<>>
    ELSE IF quest.search # "urls" THEN <<>>
    ELSE IF WeeklyTaskAccepts(quest)
         THEN <<[task_name |-> quest.task_name.s,
                 resources |-> enrich_resources_with_web_search(quest),
                 time_slot |-> quest.time_slot.s,
                 time_commitment |-> quest.time_commitment.s,
                 practice |-> format_activity(quest.activity)]>>
         ELSE <<>>

\* One iteration of the quest loop: <<task>>, or <<>> when the quest is skipped.
process_quest(quest) ==
    IF ~(RequiredTaskFields \subseteq quest.has) THEN <<>>
    ELSE LET web_resources == enrich_resources_with_web_search(quest)
             formatted_activity == format_activity(quest.activity)
         IN IF WeeklyTaskAccepts(quest)
            THEN <<[task_name |-> quest.task_name.s,
                    resources |-> web_resources,
                    time_slot |-> quest.time_slot.s,
                    time_commitment |-> quest.time_commitment.s,
                    practice |-> formatted_activity]>>
            ELSE <<>>

RECURSIVE process_quests_abort(_)
process_quests_abort(quests) ==
    IF quests = <<>> \/ process_quest(Head(quests)) = <<>> THEN <<>>
    ELSE process_quest(Head(quests)) \o process_quests_abort(Tail(quests))

\* The quest loop of one week: the tasks appended to processed_tasks.
RECURSIVE process_quests(_)
process_quests(quests) ==
    IF quests = <<>> THEN <<>>
    ELSE process_quest(Head(quests)) \o process_quests(Tail(quests))

process_week_keep_empty(week_data) ==
    IF ~(RequiredWeekFields \subseteq week_data.has) THEN <<>>
    ELSE IF week_data.quests.k # "list" THEN <<>>
    ELSE IF ~WeekPlanAccepts(week_data) THEN <<>>
    ELSE <<[week_number |-> week_data.week_number.n,
            tasks |-> process_quests(week_data.quests.items)]>>

\* One iteration of the week loop: <<week>>, or <<>> when the week is skipped.
process_week(week_data) ==
    IF ~(RequiredWeekFields \subseteq week_data.has) THEN <<>>
    ELSE IF week_data.quests.k # "list" THEN <<>>      \* TypeError, caught
    ELSE LET processed_tasks == process_quests(week_data.quests.items)
         IN IF processed_tasks = <<>> THEN <<>>
            ELSE IF ~WeekPlanAccepts(week_data) THEN <<>>
            ELSE <<[week_number |-> week_data.week_number.n,
                    tasks |-> processed_tasks]>>

RECURSIVE process_weeks_abort(_)
process_weeks_abort(weeks) ==
    IF weeks = <<>> \/ process_week(Head(weeks)) = <<>> THEN <<>>
    ELSE process_week(Head(weeks)) \o process_weeks_abort(Tail(weeks))

\* The week loop: the weeks appended to processed_weeks.
RECURSIVE process_weeks(_)
process_weeks(weeks) ==
    IF weeks = <<>> THEN <<>>
    ELSE process_week(Head(weeks)) \o process_weeks(Tail(weeks))

\* The goals of one category of a dictionary overall_goals.
goals_of_category(goal_type, goals) ==
    IF goals.k = "list" THEN goals.items
    ELSE IF goals.k = "str" THEN <<JStr(goal_type \o ": " \o goals.s)>>
    ELSE <<>>

RECURSIVE flatten_goals(_)
flatten_goals(pairs) ==
    IF pairs = <<>> THEN <<>>
    ELSE goals_of_category(Head(pairs).key, Head(pairs).val)
         \o flatten_goals(Tail(pairs))

normalize_goals_first_category(raw_goals) ==
    IF raw_goals.k = "dict"
    THEN IF raw_goals.pairs = <<>> THEN <<>>
         ELSE goals_of_category(raw_goals.pairs[1].key, raw_goals.pairs[1].val)
    ELSE IF raw_goals.k = "list" THEN raw_goals.items
    ELSE <<>>

\* overall_goals as the service normalizes it before building the roadmap.
normalize_goals(raw_goals) ==
    IF raw_goals.k = "dict" THEN flatten_goals(raw_goals.pairs)
    ELSE IF raw_goals.k = "list" THEN raw_goals.items
    ELSE <<>>

\* validate_monthly_roadmap: one more format_activity pass over every task whose
\* practice is not empty; the roadmap is returned as it is when it has no weeks.
validate_monthly_roadmap(roadmap) ==
    IF roadmap.weeks = <<>> THEN roadmap
    ELSE [roadmap EXCEPT !.weeks =
            [w \in DOMAIN roadmap.weeks |->
                [roadmap.weeks[w] EXCEPT !.tasks =
                    [t \in DOMAIN roadmap.weeks[w].tasks |->
                        [roadmap.weeks[w].tasks[t] EXCEPT !.practice =
                            IF @ # <<>> THEN format_activity(JStr(@)) ELSE @]]]]]

start_date_of(current_month) == (current_month - 1) * 30
end_date_of(current_month) == start_date_of(current_month) + 30

Raised(msg) == [ok |-> FALSE, error |-> msg]
Returned(roadmap) == [ok |-> TRUE, roadmap |-> roadmap]
\* The text of an exception is the sequence of its words.
Failed(msg) == Raised(<<"Failed", "to", "generate", "weekly", "roadmap:">> \o msg)

generate_weekly_roadmap_no_week_check(persona_type, duration_months, current_month, reply) ==
    IF reply.k = "raise" THEN Failed(reply.error)
    ELSE IF ~({"weeks", "overall_goals"} \subseteq reply.has)
    THEN Failed(<<"Invalid", "response", "structure:", "missing", "required", "fields">>)
    ELSE IF reply.weeks.k # "list" THEN Failed(<<"'NoneType'", "object", "is", "not", "iterable">>)
    ELSE LET overall_goals == normalize_goals(reply.overall_goals)
         IN IF ~MonthlyRoadmapAccepts(overall_goals) THEN Failed(<<"validation", "error", "for", "MonthlyRoadmap">>)
            ELSE Returned(validate_monthly_roadmap(
                    [user_id |-> "user", persona_type |-> persona_type,
                     duration_months |-> duration_months,
                     requested_month |-> current_month,
                     start_date |-> start_date_of(current_month),
                     end_date |-> end_date_of(current_month),
                     weeks |-> process_weeks(reply.weeks.items),
                     overall_goals |->
                        [i \in DOMAIN overall_goals |-> overall_goals[i].s]]))

\* WeeklyRoadmapGeneratorService.generate_weekly_roadmap on the reply of the AI
\* client: a parsed document, or the exception generate_content raised.
generate_weekly_roadmap(persona_type, duration_months, current_month, reply) ==
    IF reply.k = "raise" THEN Failed(reply.error)
    ELSE IF ~({"weeks", "overall_goals"} \subseteq reply.has)
    THEN Failed(<<"Invalid", "response", "structure:", "missing", "required", "fields">>)
    ELSE IF reply.weeks.k # "list" THEN Failed(<<"'NoneType'", "object", "is", "not", "iterable">>)
    ELSE LET processed_weeks == process_weeks(reply.weeks.items)
             overall_goals == normalize_goals(reply.overall_goals)
         IN IF processed_weeks = <<>>
            THEN Failed(<<"No", "valid", "weeks", "could", "be", "processed">>)
            ELSE IF ~MonthlyRoadmapAccepts(overall_goals)
            THEN Failed(<<"validation", "error", "for", "MonthlyRoadmap">>)
            ELSE Returned(validate_monthly_roadmap(
                    [user_id |-> "user", persona_type |-> persona_type,
                     duration_months |-> duration_months,
                     requested_month |-> current_month,
                     start_date |-> start_date_of(current_month),
                     end_date |-> end_date_of(current_month),
                     weeks |-> processed_weeks,
                     overall_goals |->
                        [i \in DOMAIN overall_goals |-> overall_goals[i].s]]))

\* ------------------------------------------------- the replies of the AI client
Quest(has, task_name, time_slot, provider) ==
    [has |-> has, task_name |-> task_name, time_slot |-> time_slot,
     time_commitment |-> JStr("4 hours/week"), activity |-> Steps,
     search |-> provider]

Q1 == Quest(RequiredTaskFields, JStr("t1"), JStr("9:00 AM"), "urls")
Q2 == Quest(RequiredTaskFields, JStr("t2"), JStr("7:00 PM"), "raises")
Q3 == Quest(RequiredTaskFields, JStr("t4"), JStr("8:00 AM"), "no_key")
Q4 == Quest(RequiredTaskFields, JStr("t5"), JStr("6:00 PM"), "empty")
QNullName == Quest(RequiredTaskFields, JNull, JStr("9:00 AM"), "empty")
QMissing(field) ==
    Quest(RequiredTaskFields \ {field}, JStr("t3"), JStr("9:00 AM"), "urls")

QuestSet == {Q1, Q2, Q3, Q4, QNullName} \cup {QMissing(f) : f \in RequiredTaskFields}

Week(has, week_number, quests) ==
    [has |-> has, week_number |-> week_number, quests |-> quests]

WeekShapes ==
    {"one", "two", "no_theme", "no_quests", "no_week_number", "null_week_number",
     "null_quests", "bad_quests", "empty_quests"}

\* The week of a shape; its week_number is that of a second month, 4 + n.
WeekOf(shape, n) ==
    CASE shape = "one" -> Week(RequiredWeekFields, JInt(4 + n), JList(<<Q1>>))
      [] shape = "two" -> Week(RequiredWeekFields, JInt(4 + n), JList(<<Q2, Q1>>))
      [] shape = "no_theme" ->
            Week(RequiredWeekFields \ {"theme"}, JInt(4 + n), JList(<<Q1>>))
      [] shape = "no_quests" ->
            Week(RequiredWeekFields \ {"quests"}, JInt(4 + n), JList(<<Q1>>))
      [] shape = "no_week_number" ->
            Week(RequiredWeekFields \ {"week_number"}, JInt(4 + n), JList(<<Q1>>))
      [] shape = "null_week_number" ->
            Week(RequiredWeekFields, JNull, JList(<<Q1>>))
      [] shape = "null_quests" -> Week(RequiredWeekFields, JInt(4 + n), JNull)
      [] shape = "bad_quests" ->
            Week(RequiredWeekFields, JInt(4 + n),
                 JList(<<QMissing("activity"), QNullName>>))
      [] OTHER -> Week(RequiredWeekFields, JInt(4 + n), JList(<<>>))

Doc(has, weeks, overall_goals) ==
    [k |-> "doc", has |-> has, weeks |-> weeks, overall_goals |-> overall_goals]

TopFields == {"weeks", "overall_goals"}
GoalsAB == JList(<<JStr("a"), JStr("b")>>)
GoalsBC == JList(<<JStr("b"), JStr("c")>>)

\* Documents that vary the weeks.
DocsW ==
    {Doc(TopFields, JList([i \in DOMAIN shapes |-> WeekOf(shapes[i], i)]), GoalsAB) :
        shapes \in SeqsUpTo(WeekShapes, MaxWeeks)}

\* Documents that vary the quests of the first week.
DocsQ ==
    {Doc(TopFields, JList(<<Week(RequiredWeekFields, JInt(5), JList(qs))>> \o rest),
         GoalsAB) :
        qs \in SeqsUpTo(QuestSet, MaxQuests),
        rest \in {<<>>, <<WeekOf("one", 2)>>}}

GoalItems == {JStr("a"), JStr("b"), JNull}
GoalLists == {JList(items) : items \in SeqsUpTo(GoalItems, MaxGoals)}
CategoryValues == GoalLists \cup {JStr("c"), JInt(5), JNull}
GoalDicts ==
    {JDict(<<>>)}
    \cup {JDict(<<[key |-> c, val |-> v]>>) :
            c \in {"short_term", "long_term"}, v \in CategoryValues}
    \cup {JDict(<<[key |-> "short_term", val |-> v], [key |-> "long_term", val |-> w]>>) :
            v \in CategoryValues, w \in CategoryValues}
    \cup {JDict(<<[key |-> "long_term", val |-> v], [key |-> "short_term", val |-> w]>>) :
            v \in CategoryValues, w \in CategoryValues}
GoalSet == GoalLists \cup GoalDicts \cup {JStr("goal"), JInt(3), JNull}

\* Documents that vary overall_goals, over one good week or one dropped week.
DocsG ==
    {Doc(TopFields, JList(<<WeekOf(shape, 1)>>), g) :
        shape \in {"two", "no_theme"}, g \in GoalSet}

\* Documents that lack a top-level field, or whose weeks is null.
DocsTop ==
    {Doc(has, JList(<<WeekOf("one", 1)>>), GoalsAB) : has \in (SUBSET TopFields) \ {TopFields}}
    \cup {Doc(TopFields, JNull, GoalsAB)}

\* safe_parse_json's ValueError, GeminiClient.generate_content's exception for a
\* reply no attempt could parse, and the exception generate_content raises for
\* every failure.
ParseAttemptsError(decode_error) ==
    <<"Failed", "to", "parse", "JSON", "after", "multiple", "attempts:">> \o decode_error
ParseResponseError(json_err) ==
    <<"Failed", "to", "parse", "JSON", "response:">> \o json_err
GenerateContentError(e) == <<"Failed", "to", "generate", "content:">> \o e

\* What generate_content raises: the call of the AI failed on the API key, or
\* no attempt could parse the reply.
Raises ==
    {[k |-> "raise", cause |-> "api_key", error |->
        GenerateContentError(<<"400", "API", "key", "not", "valid.", "Please", "pass",
                               "a", "valid", "API", "key.">>)],
     [k |-> "raise", cause |-> "parse", error |->
        GenerateContentError(ParseResponseError(ParseAttemptsError(
            <<"Expecting", "value:", "line", "1", "column", "1", "(char", "0)">>)))]}

GoodDoc == Doc(TopFields, JList(<<WeekOf("one", 1), WeekOf("two", 2)>>), GoalsAB)
EmptyDoc == Doc(TopFields, JList(<<>>), GoalsAB)

\* The months whose unit may get a bad reply in a request of more than 3 months:
\* a middle, a last and a first month of a batch of 6, and month 13.
BadReplyMonths == {2, 6, 7, 13}

\* The replies the unit of one month may get, by the size of the request.
Replies(duration, month) ==
    IF duration = 1 THEN DocsW \cup DocsQ \cup DocsG \cup DocsTop \cup Raises
    ELSE IF duration = 2
    THEN {GoodDoc, EmptyDoc,
          Doc(TopFields, JList(<<WeekOf("bad_quests", 1), WeekOf("two", 2)>>), GoalsBC),
          Doc(TopFields, JList(<<WeekOf("one", 1)>>),
              JDict(<<[key |-> "short_term", val |-> GoalsBC],
                      [key |-> "long_term", val |-> JStr("c")]>>))}
         \cup Raises
    ELSE IF duration = 3 \/ month \in BadReplyMonths THEN {GoodDoc, EmptyDoc}
    ELSE {GoodDoc}

\* ------------------------------------------------------------ json.loads
\* The decoder of the documents this model parses: objects whose keys and values
\* are strings or objects. A decoded string is [str |-> its text], a decoded
\* object [members |-> its members in the order of their first appearance]. A failure
\* carries the words of str(JSONDecodeError): the message and the position.
Decoded(val, next) == [ok |-> TRUE, val |-> val, next |-> next]
JSONDecodeError(msg, pos) ==
    [ok |-> FALSE, error |-> msg \o <<"(char", ToString(pos - 1) \o ")">>]

\* The first position from i on that holds no whitespace.
RECURSIVE SkipWhitespace(_, _)
SkipWhitespace(text, i) ==
    IF i <= Len(text) /\ text[i] \in Whitespace THEN SkipWhitespace(text, i + 1) ELSE i

\* The character an escape \c stands for; <<>> for an escape json refuses.
Unescape(c) ==
    CASE c = QT -> <<QT>>
      [] c = BS -> <<BS>>
      [] c = "/" -> <<"/">>
      [] c = "n" -> <<NL>>
      [] c = "r" -> <<CR>>
      [] c = "t" -> <<TAB>>
      [] OTHER -> <<>>

\* The string opened by the quote at begin, scanned from i with acc decoded.
RECURSIVE ScanString(_, _, _, _)
ScanString(text, begin, i, acc) ==
    IF i > Len(text)
    THEN JSONDecodeError(<<"Unterminated", "string", "starting", "at">>, begin)
    ELSE IF text[i] = QT THEN Decoded(acc, i + 1)
    ELSE IF text[i] \in ControlCharacters
    THEN JSONDecodeError(<<"Invalid", "control", "character", "at">>, i)
    ELSE IF text[i] = BS
    THEN IF i + 1 > Len(text)
         THEN JSONDecodeError(<<"Unterminated", "string", "starting", "at">>, begin)
         ELSE IF Unescape(text[i + 1]) = <<>>
         THEN JSONDecodeError(<<"Invalid", "\\escape">>, i)
         ELSE ScanString(text, begin, i + 2, acc \o Unescape(text[i + 1]))
    ELSE ScanString(text, begin, i + 1, Append(acc, text[i]))

\* dict[key] = val
SetMember(members, key, val) ==
    IF \E m \in DOMAIN members : members[m].key = key
    THEN [m \in DOMAIN members |->
            IF members[m].key = key THEN [key |-> key, val |-> val] ELSE members[m]]
    ELSE Append(members, [key |-> key, val |-> val])

RECURSIVE ParseValue(_, _)
RECURSIVE ParseMembers(_, _, _)

\* The members of an object from the key expected at i on.
ParseMembers(text, i, members) ==
    IF i > Len(text) \/ text[i] # QT
    THEN JSONDecodeError(<<"Expecting", "property", "name", "enclosed", "in",
                           "double", "quotes">>, i)
    ELSE LET key == ScanString(text, i, i + 1, <<>>)
         IN IF ~key.ok THEN key
            ELSE LET colon == SkipWhitespace(text, key.next)
                 IN IF colon > Len(text) \/ text[colon] # ":"
                    THEN JSONDecodeError(<<"Expecting", "':'", "delimiter">>, colon)
                    ELSE LET val == ParseValue(text, SkipWhitespace(text, colon + 1))
                         IN IF ~val.ok THEN val
                            ELSE LET after == SkipWhitespace(text, val.next)
                                     so_far == SetMember(members, key.val, val.val)
                                 IN IF after <= Len(text) /\ text[after] = "}"
                                    THEN Decoded([members |-> so_far], after + 1)
                                    ELSE IF after <= Len(text) /\ text[after] = ","
                                    THEN ParseMembers(text,
                                            SkipWhitespace(text, after + 1), so_far)
                                    ELSE JSONDecodeError(
                                            <<"Expecting", "','", "delimiter">>, after)

\* The value that starts at i.
ParseValue(text, i) ==
    IF i > Len(text) THEN JSONDecodeError(<<"Expecting", "value">>, i)
    ELSE IF text[i] = QT
    THEN LET string == ScanString(text, i, i + 1, <<>>)
         IN IF string.ok THEN Decoded([str |-> string.val], string.next) ELSE string
    ELSE IF text[i] = "{"
    THEN LET first == SkipWhitespace(text, i + 1)
         IN IF first <= Len(text) /\ text[first] = "}"
            THEN Decoded([members |-> <<>>], first + 1)
            ELSE ParseMembers(text, first, <<>>)
    ELSE JSONDecodeError(<<"Expecting", "value">>, i)

\* json.loads(text): the document, or the JSONDecodeError.
json_loads(text) ==
    LET val == ParseValue(text, SkipWhitespace(text, 1))
    IN IF ~val.ok THEN val
       ELSE IF SkipWhitespace(text, val.next) <= Len(text)
       THEN JSONDecodeError(<<"Extra", "data">>, SkipWhitespace(text, val.next))
       ELSE [ok |-> TRUE, val |-> val.val]

\* ------------------------------------------------------------ json_sanitizer
\* fix_activity: the value of one activity field, re-escaped.
fix_activity(activity) ==
    replace(replace(replace(activity, <<BS>>, <<BS, BS>>), <<NL>>, <<BS, "n">>),
            <<QT>>, <<BS, QT>>)

\* The lookahead (?=",|"\s*}) at position i.
ActivityEndsAt(text, i) ==
    \/ StartsWithAt(text, i, <<QT, ",">>)
    \/ /\ StartsWithAt(text, i, <<QT>>)
       /\ SkipWhitespace(text, i + 1) <= Len(text)
       /\ text[SkipWhitespace(text, i + 1)] = "}"

\* The match of "activity":\s*"(.*?)(?=",|"\s*}) that starts at i, with DOTALL:
\* [from, to], the positions of group 1, to being the least one the lookahead
\* holds after; <<>> when the pattern does not match at i.
ActivityMatchAt(text, i) ==
    IF ~StartsWithAt(text, i, ActivityKey) THEN <<>>
    ELSE LET open == SkipWhitespace(text, i + Len(ActivityKey))
         IN IF open > Len(text) \/ text[open] # QT THEN <<>>
            ELSE IF \E e \in (open + 1)..Len(text) : ActivityEndsAt(text, e)
            THEN <<open + 1,
                   (CHOOSE e \in (open + 1)..Len(text) :
                        /\ ActivityEndsAt(text, e)
                        /\ \A d \in (open + 1)..(e - 1) : ~ActivityEndsAt(text, d)) - 1>>
            ELSE <<>>

\* re.sub(pattern, fix_activity, json_str) from position i on.
RECURSIVE SubActivity(_, _)
SubActivity(text, i) ==
    IF i > Len(text) THEN <<>>
    ELSE IF ActivityMatchAt(text, i) = <<>>
    THEN <<text[i]>> \o SubActivity(text, i + 1)
    ELSE LET match == ActivityMatchAt(text, i)
         IN ActivityKey \o <<" ", QT>> \o fix_activity(SubSeq(text, match[1], match[2]))
            \o SubActivity(text, match[2] + 1)

sanitize_json_string(json_str) ==
    SubActivity(
        remove(replace(replace(json_str, <<CR, NL>>, <<NL>>), <<CR>>, <<NL>>),
               StrippedControls),
        1)

\* One line of sanitize_line_by_line on the state [result, activity_content,
\* activity_buffer].
LineStep(st, line) ==
    LET stripped == strip(line)
    IN IF In(ActivityKey, stripped)
       THEN LET prefix == split_once(stripped, ActivityKey)[1] \o ActivityKey \o <<" ", QT>>
                content == strip(split_once(stripped, ActivityKey)[2])
            IN IF endswith(stripped, <<QT>>) /\ count(stripped, <<QT>>) > 3
               THEN IF startswith(content, <<QT>>) /\ endswith(content, <<QT>>)
                    THEN [result |-> Append(st.result,
                                      prefix
                                      \o replace(SubSeq(content, 2, Len(content) - 1),
                                                 <<QT>>, <<BS, QT>>)
                                      \o <<QT>>),
                          activity_content |-> FALSE,
                          activity_buffer |-> st.activity_buffer]
                    ELSE [result |-> st.result,
                          activity_content |-> TRUE,
                          activity_buffer |-> content]
               ELSE [result |-> st.result,
                     activity_content |-> TRUE,
                     activity_buffer |->
                        IF startswith(content, <<QT>>) THEN Tail(content) ELSE content]
       ELSE IF st.activity_content
       THEN IF endswith(stripped, <<QT>>) /\ ~endswith(stripped, <<BS, QT>>)
            THEN [result |-> Append(st.result,
                              replace(replace(st.activity_buffer \o <<" ">>
                                                \o SubSeq(stripped, 1, Len(stripped) - 1),
                                              <<QT>>, <<BS, QT>>),
                                      <<NL>>, <<BS, "n">>)
                              \o <<QT>>),
                  activity_content |-> FALSE,
                  activity_buffer |-> <<>>]
            ELSE [result |-> st.result,
                  activity_content |-> TRUE,
                  activity_buffer |-> st.activity_buffer \o <<" ">> \o stripped]
       ELSE [result |-> Append(st.result, stripped),
             activity_content |-> FALSE,
             activity_buffer |-> st.activity_buffer]

RECURSIVE LineSteps(_, _)
LineSteps(st, lines) ==
    IF lines = <<>> THEN st ELSE LineSteps(LineStep(st, Head(lines)), Tail(lines))

sanitize_line_by_line(json_str) ==
    join(<<NL>>,
         LineSteps([result |-> <<>>, activity_content |-> FALSE, activity_buffer |-> <<>>],
                   split(json_str, <<NL>>)).result)

\* ------------------------------------------------------------ gemini_client
\* The reply without its code fence: the text between the first ```json, or the
\* first ```, and the last ```.
strip_fences(response_text) ==
    IF In(FenceJson, response_text)
    THEN strip(SubSeq(response_text, find(response_text, FenceJson) + 7,
                      rfind(response_text, Fence) - 1))
    ELSE IF In(Fence, response_text)
    THEN strip(SubSeq(response_text, find(response_text, Fence) + 3,
                      rfind(response_text, Fence) - 1))
    ELSE response_text

\* ------------------------------------------------- the reply texts of the AI
Chars_activity == <<"a", "c", "t", "i", "v", "i", "t", "y">>
Chars_name == <<"n", "a", "m", "e">>
StringLiteral(raw) == <<QT>> \o raw \o <<QT>>
Member(key, raw) == StringLiteral(key) \o <<":", " ">> \o StringLiteral(raw)

\* The text of a string value as the AI wrote it (raw), the string it stands
\* for (means) and the kind of the value: "well" for a well-formed JSON string,
\* the defect otherwise.
Value(kind, raw, means) == [kind |-> kind, raw |-> raw, means |-> means]
WellFormedValues ==
    {Value("well", <<"d", "o", " ", "x">>, <<"d", "o", " ", "x">>),
     Value("well", <<"s", "a", "y", " ", BS, QT, "x", BS, QT>>,
                   <<"s", "a", "y", " ", QT, "x", QT>>),
     Value("well", <<"d", "o", BS, "n", "x">>, <<"d", "o", NL, "x">>),
     Value("well", <<"r", "u", "n", " ", BT, BT, BT, "x">>,
                   <<"r", "u", "n", " ", BT, BT, BT, "x">>),
     Value("well", <<"r", "u", "n", " ", BT, BT, BT, "x", BT, BT, BT>>,
                   <<"r", "u", "n", " ", BT, BT, BT, "x", BT, BT, BT>>)}
\* Values with a raw newline and an unescaped double quote: the quote inside a
\* word, before a comma, before a closing brace, and at the end of a line.
NewlineQuoteValues ==
    {Value("newline_quote", raw, raw) :
        raw \in {<<"d", "o", NL, "s", "a", "y", " ", QT, "x">>,
                 <<"d", "o", " ", QT, "x", QT, " ", NL, "y">>,
                 <<"d", "o", NL, QT, "x", QT, ",", " ", "y">>,
                 <<"d", "o", NL, "s", "e", "t", " ", "{", QT, "x", QT, "}">>,
                 <<"d", "o", " ", QT, "x", QT, NL, "y">>}}
OtherBrokenValues ==
    {Value("newline", <<"d", "o", NL, "x">>, <<"d", "o", NL, "x">>),
     Value("quote", <<"s", "a", "y", " ", QT, "x", QT, " ", "y">>,
                    <<"s", "a", "y", " ", QT, "x", QT, " ", "y">>),
     Value("quote", <<"s", "a", "y", " ", QT, "x", QT, ",", " ", "y">>,
                    <<"s", "a", "y", " ", QT, "x", QT, ",", " ", "y">>),
     Value("tab", <<"d", "o", TAB, "x">>, <<"d", "o", "x">>)}
Values == WellFormedValues \cup NewlineQuoteValues \cup OtherBrokenValues

Layouts == {"first", "last", "lines", "lines_last", "tight", "spaced"}
Wrappers == {"bare", "fence_json", "fence"}

\* The document {"activity": <value>, "name": "x"} in one of six layouts: on
\* one line or on four, the activity first or last, without any space, and
\* with a space before the comma.
DocumentText(layout, value) ==
    CASE layout = "tight" ->
            <<"{">> \o StringLiteral(Chars_activity) \o <<":">> \o StringLiteral(value.raw)
            \o <<",">> \o StringLiteral(Chars_name) \o <<":">> \o StringLiteral(<<"x">>)
            \o <<"}">>
      [] layout = "spaced" ->
            <<"{">> \o Member(Chars_activity, value.raw) \o <<" ", ",", " ">>
            \o Member(Chars_name, <<"x">>) \o <<"}">>
      [] layout = "first" ->
            <<"{">> \o Member(Chars_activity, value.raw) \o <<",", " ">>
            \o Member(Chars_name, <<"x">>) \o <<"}">>
      [] layout = "last" ->
            <<"{">> \o Member(Chars_name, <<"x">>) \o <<",", " ">>
            \o Member(Chars_activity, value.raw) \o <<"}">>
      [] layout = "lines" ->
            <<"{", NL, " ">> \o Member(Chars_activity, value.raw) \o <<",", NL, " ">>
            \o Member(Chars_name, <<"x">>) \o <<NL, "}">>
      [] OTHER ->
            <<"{", NL, " ">> \o Member(Chars_name, <<"x">>) \o <<",", NL, " ">>
            \o Member(Chars_activity, value.raw) \o <<NL, "}">>

\* The document the text stands for.
DocumentMeant(layout, value) ==
    IF layout \in {"first", "lines", "tight", "spaced"}
    THEN [members |-> <<[key |-> Chars_activity, val |-> [str |-> value.means]],
                        [key |-> Chars_name, val |-> [str |-> <<"x">>]]>>]
    ELSE [members |-> <<[key |-> Chars_name, val |-> [str |-> <<"x">>]],
                        [key |-> Chars_activity, val |-> [str |-> value.means]]>>]

Wrapped(wrapper, text) ==
    CASE wrapper = "fence_json" -> FenceJson \o <<NL>> \o text \o <<NL>> \o Fence
      [] wrapper = "fence" -> Fence \o <<NL>> \o text \o <<NL>> \o Fence
      [] OTHER -> text

\* The replies: a document, bare or in a code fence, and texts that are no
\* document.
Reply(kind, wrapper, text, meant, raw) ==
    [kind |-> kind, wrapper |-> wrapper, text |-> text, meant |-> meant, raw |-> raw]
DocumentReplies ==
    {Reply(value.kind, wrapper, Wrapped(wrapper, DocumentText(layout, value)),
           DocumentMeant(layout, value), value.raw) :
        layout \in Layouts, value \in Values, wrapper \in Wrappers}
GarbageReplies ==
    {Reply("garbage", "bare", text, [members |-> <<>>], <<>>) :
        text \in {<<>>, <<"{">>, <<"s", "o", "r", "r", "y">>,
                  <<"{">> \o Member(Chars_name, <<"x">>),
                  <<" ", "{">> \o StringLiteral(Chars_activity) \o <<":", NL, " ", "x", QT, NL, "}">>}}
ReplyTexts == DocumentReplies \cup GarbageReplies

\* ------------------------------------------- the activities format_activity is given
\* The longest activity text, in lines, and the longest normalized one, in steps.
MaxLines == 3
MaxSteps == 12

\* What one line of an activity text may be: a step without a number, steps
\* with the numbers 1, 2, 3 and 10, a bare number, an empty line, a numbered
\* step after a space, and steps whose text holds a digit, a dot and a space.
LineChoices ==
    {<<"a">>,
     <<"1", ".", " ", "a">>,
     <<"2", ".", " ", "b">>,
     <<"3", ".", " ", "c">>,
     <<"1", ".">>,
     <<>>,
     <<" ", "2", ".", " ", "b">>,
     <<"x", " ", "2", ".", " ", "y">>,
     <<"1", ".", " ", "a", " ", "2", ".", " ", "b">>,
     <<"1", "0", ".", " ", "j">>}

ActivityTexts ==
    {join(<<NL>>, lines) : lines \in UNION {[1..n -> LineChoices] : n \in 1..MaxLines}}

\* The normalized text of n steps: "1. s", "2. s", ..., one per line.
NormalizedSteps(n) ==
    join(<<NL>>, [i \in 1..n |-> str_of_int(i) \o <<".", " ", "s">>])
NormalizedTexts == {NormalizedSteps(n) : n \in 1..MaxSteps}

\* "Do the thing. Then 2. do another"
EmbeddedMarker ==
    <<"D", "o", " ", "t", "h", "e", " ", "t", "h", "i", "n", "g", ".", " ", "T", "h", "e", "n", " ", "2", ".", " ", "d", "o", " ", "a", "n", "o", "t", "h", "e", "r">>

\* Texts with carriage returns and a tab, and the empty text.
OtherTexts ==
    {<<>>,
     <<"a", CR, NL, "2", ".", " ", "b">>,
     <<"a", CR, "b">>,
     <<"1", ".", " ", "a", TAB, "b">>,
     <<"1", ".", " ", "a", CR, NL, CR, NL, "2", ".", " ", "b">>}

\* Activities that are not a string: lists of strings and of other values, a
\* number, null.
OtherActivities ==
    {JList(<<>>),
     JList(<<JStr(<<"a">>), JStr(<<" ", "2", ".", " ", "b", " ">>)>>),
     JList(<<JStr(<<"1", ".", " ", "a">>), JStr(<<>>), JStr(<<"2", ".", " ", "b">>)>>),
     JList(<<JInt(5), JNull, JStr(<<" ">>)>>),
     JInt(7),
     JNull}

Activities ==
    {JStr(text) : text \in ActivityTexts \cup NormalizedTexts \cup {EmbeddedMarker} \cup OtherTexts}
        \cup OtherActivities


\* ------------------------------------------------ the queries given to search()
\* text[:n]
prefix(text, n) == SubSeq(text, 1, IF Len(text) < n THEN Len(text) ELSE n)

\* The truth value Python gives a value of the reply.
truthy(value) ==
    CASE value.k = "str" -> value.s # <<>>
      [] value.k = "int" -> value.n # 0
      [] value.k = "list" -> value.items # <<>>
      [] OTHER -> FALSE

difficulty_level(current_month) ==
    IF current_month <= 1 THEN <<>>
    ELSE IF current_month <= 2 THEN <<"i", "n", "t", "e", "r", "m", "e", "d", "i", "a", "t", "e">>
    ELSE IF current_month <= 4 THEN <<"a", "d", "v", "a", "n", "c", "e", "d">>
    ELSE <<"e", "x", "p", "e", "r", "t">>

\* The practice after "if isinstance(practice, list)": the first item of a
\* list, "" for the empty list.
first_practice(practice) ==
    IF practice.k = "list"
    THEN (IF Len(practice.items) > 0 THEN practice.items[1] ELSE JStr(<<>>))
    ELSE practice

\* truncated_practice, for the practice first_practice gives.
truncated_practice(practice) ==
    IF truthy(practice) /\ practice.k = "str" /\ In(<<"1", ".">>, practice.s)
    THEN LET first_step == IF In(<<"2", ".">>, practice.s)
                           THEN split(practice.s, <<"2", ".">>)[1] ELSE practice.s
         IN prefix(IF startswith(first_step, <<"1", ".">>)
                   THEN strip(SubSeq(first_step, 3, Len(first_step)))
                   ELSE first_step,
                   100)
    ELSE IF truthy(practice) /\ practice.k = "str" THEN prefix(practice.s, 100)
    ELSE IF truthy(practice) THEN prefix(str(practice), 100)
    ELSE <<>>

\* task_name[:80] raises a TypeError for a task name that is a number other
\* than 0; the except clause then returns [] and search() is not called.
weekly_query_raises(task_name) == task_name.k = "int" /\ task_name.n # 0

\* The hard limit of the final safety check.
QueryLimit == 390

\* The search_query WeeklyRoadmapGeneratorService.enrich_resources_with_web_search
\* passes to search().
weekly_search_query(task_name, practice, current_month) ==
    LET truncated_task == IF truthy(task_name) THEN prefix(task_name.s, 80) ELSE <<>>
        short == strip(truncated_task \o <<" ">> \o difficulty_level(current_month))
        search_query ==
            IF Len(short) < 300
            THEN strip(truncated_task \o <<":", " ">>
                       \o truncated_practice(first_practice(practice))
                       \o <<" ">> \o difficulty_level(current_month))
            ELSE short
    IN IF Len(search_query) > QueryLimit THEN prefix(search_query, QueryLimit)
       ELSE search_query

\* The search_query RoadmapGeneratorService.enrich_resources_with_web_search
\* passes to search(): f"{task_title}: {task_description}".
roadmap_search_query(task_title, task_description) ==
    str(task_title) \o <<":", " ">> \o str(task_description)

\* The longest text of a reply's task name, title, activity or description.
MaxTextLen == 400

\* n times the character c.
Repeat(c, n) == [i \in 1..n |-> c]

\* Task names and titles: texts of no character, of one, of 80, of 81 and of
\* MaxTextLen, one with spaces around it, null and numbers.
TaskNameValues ==
    {JStr(Repeat("n", n)) : n \in {0, 1, 80, 81, MaxTextLen}}
        \cup {JStr(<<" ", "n", " ">>), JNull, JInt(0), JInt(5)}

\* Practices and descriptions: texts without steps, with steps, with a step 2
\* only, long ones, lists, null and a number.
PracticeValues ==
    {JStr(<<>>),
     JStr(<<"a">>),
     JStr(<<"1", ".", " ", "a", " ", "2", ".", " ", "b">>),
     JStr(<<"1", ".", "a">>),
     JStr(<<"x", " ", "2", ".", " ", "y", " ", "1", ".", " ", "z">>),
     JStr(<<"a", NL, "1", ".", " ", "b">>),
     JStr(Repeat("p", MaxTextLen)),
     JStr(<<"1", ".", " ">> \o Repeat("p", MaxTextLen)),
     JList(<<>>),
     JList(<<JStr(<<"1", ".", " ", "a">>), JStr(<<"2", ".", " ", "b">>)>>),
     JList(<<JInt(5)>>),
     JInt(7),
     JNull}

\* The descriptions of RoadmapGeneratorService's tasks: the values that are
\* not lists.
DescriptionValues == {value \in PracticeValues : value.k # "list"}

\* ---------------------------------------------------------------- the state
VARIABLES
    persona_type,       \* the request's persona_type
    duration_months,    \* the request's duration_months
    pc,                 \* the endpoint coroutine: "start", "await_gather", "done"
    response_data,      \* month -> the reply generate_content gave that unit
    tasks,              \* month -> the asyncio Task of that unit
    ready,              \* the event loop's FIFO queue of callbacks
    outer,              \* the future asyncio.gather returned
    batch_start,        \* first month of the batch being gathered
    monthly_roadmaps,   \* the endpoint's monthly_roadmaps list
    unique_goals,       \* the endpoint's unique_goals list
    response,           \* what the endpoint returned or raised
    dispatched,         \* months in the order their units were created
    overtaken           \* a unit has finished before one created before it

\* The run of GeminiClient.generate_content on one reply.
VARIABLES
    response_text,      \* the text of the AI's reply
    reply_is,           \* what the reply was built as: kind, document meant, activity text
    json_str,           \* the reply without its code fence
    attempts,           \* the decodes safe_parse_json has made, in order
    parsed,             \* what safe_parse_json and generate_content gave
    parse_pc            \* "idle", "received", "safe_parse", "last_resort", "done"

VARIABLES
    activity,           \* the activity of one quest of the reply
    practice,           \* the practice of the task made of that quest
    format_pc           \* "idle", "quest", "month", "endpoint", "done"

VARIABLES
    enrich_call,        \* the arguments of one enrich_resources_with_web_search call
    queries,            \* the queries search() was called with, in order
    query_pc            \* "idle", "weekly", "roadmap", "done"

endpointVars ==
    <<persona_type, duration_months, pc, response_data, tasks, ready, outer,
      batch_start, monthly_roadmaps, unique_goals, response, dispatched, overtaken>>
parserVars == <<response_text, reply_is, json_str, attempts, parsed, parse_pc>>
formatVars == <<activity, practice, format_pc>>
queryVars == <<enrich_call, queries, query_pc>>
textVars == <<parserVars, formatVars, queryVars>>
vars == <<endpointVars, textVars>>

batch_size == 6
batch_threshold == 12

Months == 1..duration_months
NoReply == [k |-> "none"]
NoTask == [state |-> "none"]
Pending == [state |-> "pending"]
Done(result) == [state |-> "done", result |-> result]
NoGather == [state |-> "none"]
NoResponse == [status |-> 0]

Min(a, b) == IF a < b THEN a ELSE b
RemoveAt(s, i) == SubSeq(s, 1, i - 1) \o SubSeq(s, i + 1, Len(s))
\* The months a..b in ascending order, as list(range(a, b + 1)).
Range(a, b) == [i \in 1..(b - a + 1) |-> a + i - 1]
Outstanding == {m \in Months : tasks[m].state = "pending"}

NotParsed == [state |-> "none"]
\* No reply is being parsed.
ParserIdle ==
    /\ response_text = <<>>
    /\ reply_is = [kind |-> "none"]
    /\ json_str = <<>>
    /\ attempts = <<>>
    /\ parsed = NotParsed
    /\ parse_pc = "idle"

\* The endpoint is called with a persona_type and one of durations.
EndpointInit(personas, durations) ==
    /\ persona_type \in personas
    /\ duration_months \in durations
    /\ pc = "start"
    /\ response_data = [m \in Months |-> NoReply]
    /\ tasks = [m \in Months |-> NoTask]
    /\ ready = <<>>
    /\ outer = NoGather
    /\ batch_start = 1
    /\ monthly_roadmaps = <<>>
    /\ unique_goals = <<>>
    /\ response = NoResponse
    /\ dispatched = <<>>
    /\ overtaken = FALSE

FormatIdle ==
    /\ activity = JNull
    /\ practice = <<>>
    /\ format_pc = "idle"

NoCall == [service |-> "none"]

QueryIdle ==
    /\ enrich_call = NoCall
    /\ queries = <<>>
    /\ query_pc = "idle"

InitWith(durations) ==
    EndpointInit({"", "INTJ"}, durations) /\ ParserIdle /\ FormatIdle /\ QueryIdle

Init == InitWith(0..MaxMonths)

\* ----------------------------------------------------------- the event loop
\* The callbacks of ready the loop may run next. No unit ever suspends:
\* GeminiClient.generate_content and TavilySearchClient.search call their
\* blocking SDK clients and await nothing, so a Task's first step runs its unit
\* to the end, and the loop takes its callbacks first in, first out.
RunnableWhenUnitsSuspend ==
    {i \in DOMAIN ready :
        \/ ready[i].cb = "step"
        \/ \A j \in 1..(i - 1) : ready[j].cb = "step"}

Runnable == IF ready = <<>> THEN {} ELSE {1}

\* ------------------------------------------------------------ the endpoint
batch_months_overlapping(start) ==
    IF duration_months >= batch_threshold
    THEN Range(start, Min(start + batch_size + 1, duration_months + 1) - 1)
    ELSE Range(1, duration_months)

\* The months of the group gathered from month start on: one batch of 6 for a
\* request of 12 months or more, every month otherwise.
batch_months(start) ==
    IF duration_months >= batch_threshold
    THEN Range(start, Min(start + batch_size, duration_months + 1) - 1)
    ELSE Range(1, duration_months)

extend_at_front(roadmaps, batch_results) == batch_results \o roadmaps

\* monthly_roadmaps.extend(batch_results)
extend(roadmaps, batch_results) == roadmaps \o batch_results

\* str.lower(), word by word.
LowerWord(w) ==
    CASE w = "API" -> "api"
      [] w = "JSON" -> "json"
      [] w = "Failed" -> "failed"
      [] w = "Please" -> "please"
      [] w = "Expecting" -> "expecting"
      [] w = "Invalid" -> "invalid"
      [] w = "No" -> "no"
      [] w = "'NoneType'" -> "'nonetype'"
      [] w = "MonthlyRoadmap" -> "monthlyroadmap"
      [] OTHER -> w
lower(text) == [i \in DOMAIN text |-> LowerWord(text[i])]

\* needle in text: the words of needle occur in text, in a row.
Contains(needle, text) ==
    \E i \in 1..(Len(text) - Len(needle) + 1) :
        \A j \in DOMAIN needle : text[i + j - 1] = needle[j]

\* The except Exception clause of the endpoint: an HTTP 500 whose detail is of
\* one of three categories, chosen by the lowered text of the exception.
HandleException(e) ==
    IF Contains(<<"API", "key">>, lower(e))
    THEN [status |-> 500, category |-> "API key error", error |-> e]
    ELSE IF \/ Contains(<<"parse", "json">>, lower(e))
            \/ Contains(<<"control", "character">>, lower(e))
            \/ Contains(<<"decode">>, lower(e))
    THEN [status |-> 500, category |-> "Error parsing AI response", error |-> e]
    ELSE [status |-> 500, category |-> "An error occurred", error |-> e]

RECURSIVE remove_duplicates(_, _)
remove_duplicates(combined_goals, seen) ==
    IF combined_goals = <<>> THEN <<>>
    ELSE IF Head(combined_goals) \in seen
    THEN remove_duplicates(Tail(combined_goals), seen)
    ELSE <<Head(combined_goals)>>
         \o remove_duplicates(Tail(combined_goals), seen \cup {Head(combined_goals)})

RECURSIVE combine_goals(_)
combine_goals(roadmaps) ==
    IF roadmaps = <<>> THEN <<>>
    ELSE Head(roadmaps).overall_goals \o combine_goals(Tail(roadmaps))

\* Creating the Tasks of one group and the gather future over them.
Dispatch(start) ==
    LET months == batch_months(start)
    IN /\ tasks' = [m \in Months |->
                        IF \E i \in DOMAIN months : months[i] = m
                        THEN Pending ELSE tasks[m]]
       /\ ready' = ready \o [i \in DOMAIN months |-> [cb |-> "step", month |-> months[i]]]
       /\ outer' = [state |-> "pending", nfinished |-> 0, children |-> months]
       /\ batch_start' = start
       /\ dispatched' = dispatched \o months

\* persona_type empty or duration_months < 1: HTTP 400.
Endpoint_reject ==
    /\ pc = "start"
    /\ persona_type = "" \/ duration_months < 1
    /\ response' = [status |-> 400, error |->
                        IF persona_type = "" THEN "Persona type cannot be empty"
                        ELSE "Duration months must be a positive integer"]
    /\ pc' = "done"
    /\ UNCHANGED <<persona_type, duration_months, response_data, tasks, ready, outer,
                   batch_start, monthly_roadmaps, unique_goals, dispatched, overtaken>>
    /\ UNCHANGED textVars

\* duration_months = 1: the unit is awaited in line, then validated once more.
Endpoint_single_month ==
    /\ pc = "start"
    /\ persona_type # "" /\ duration_months = 1
    /\ \E reply \in Replies(duration_months, 1) :
         LET r == generate_weekly_roadmap(persona_type, duration_months, 1, reply)
         IN /\ response_data' = [response_data EXCEPT ![1] = reply]
            /\ tasks' = [tasks EXCEPT ![1] = Done(r)]
            /\ response' = IF r.ok
                           THEN [status |-> 200, kind |-> "monthly",
                                 body |-> validate_monthly_roadmap(r.roadmap)]
                           ELSE HandleException(r.error)
    /\ pc' = "done"
    /\ dispatched' = <<1>>
    /\ UNCHANGED <<persona_type, duration_months, ready, outer, batch_start,
                   monthly_roadmaps, unique_goals, overtaken>>
    /\ UNCHANGED textVars

\* duration_months > 1: the first group is created and gathered.
Endpoint_dispatch ==
    /\ pc = "start"
    /\ persona_type # "" /\ duration_months > 1
    /\ Dispatch(1)
    /\ pc' = "await_gather"
    /\ UNCHANGED <<persona_type, duration_months, response_data, monthly_roadmaps,
                   unique_goals, response, overtaken>>
    /\ UNCHANGED textVars

\* The first step of a unit's Task: the unit runs to its end.
Task_step(i) ==
    /\ i \in DOMAIN ready /\ ready[i].cb = "step"
    /\ LET m == ready[i].month
       IN /\ \E reply \in Replies(duration_months, m) :
                /\ response_data' = [response_data EXCEPT ![m] = reply]
                /\ tasks' = [tasks EXCEPT ![m] =
                      Done(generate_weekly_roadmap(persona_type, duration_months, m, reply))]
          /\ ready' = Append(RemoveAt(ready, i), [cb |-> "done", month |-> m])
          /\ overtaken' = (overtaken \/ \E n \in 1..(m - 1) : tasks[n].state = "pending")
    /\ UNCHANGED <<persona_type, duration_months, pc, outer, batch_start,
                   monthly_roadmaps, unique_goals, response, dispatched>>
    /\ UNCHANGED textVars

Gather_done_callback_swallow(i) ==
    /\ i \in DOMAIN ready /\ ready[i].cb = "done"
    /\ LET rest == RemoveAt(ready, i)
           succeeded == SelectSeq(outer.children, LAMBDA c : tasks[c].result.ok)
       IN IF outer.state # "pending"
          THEN /\ ready' = rest
               /\ outer' = outer
          ELSE IF outer.nfinished + 1 < Len(outer.children)
          THEN /\ outer' = [outer EXCEPT !.nfinished = @ + 1]
               /\ ready' = rest
          ELSE IF succeeded = <<>>
          THEN /\ outer' = [state |-> "exception", exc |-> tasks[ready[i].month].result.error]
               /\ ready' = Append(rest, [cb |-> "wakeup"])
          ELSE /\ outer' = [state |-> "result", results |->
                              [j \in DOMAIN succeeded |-> tasks[succeeded[j]].result.roadmap]]
               /\ ready' = Append(rest, [cb |-> "wakeup"])
    /\ UNCHANGED <<persona_type, duration_months, pc, response_data, tasks, batch_start,
                   monthly_roadmaps, unique_goals, response, dispatched, overtaken>>
    /\ UNCHANGED textVars

\* asyncio.gather's _done_callback for one child (return_exceptions is False).
Gather_done_callback(i) ==
    /\ i \in DOMAIN ready /\ ready[i].cb = "done"
    /\ LET m == ready[i].month
           rest == RemoveAt(ready, i)
       IN IF outer.state # "pending"
          THEN /\ ready' = rest
               /\ outer' = outer
          ELSE IF ~tasks[m].result.ok
          THEN /\ outer' = [state |-> "exception", exc |-> tasks[m].result.error]
               /\ ready' = Append(rest, [cb |-> "wakeup"])
          ELSE IF outer.nfinished + 1 = Len(outer.children)
          THEN /\ outer' = [state |-> "result", results |->
                              [j \in DOMAIN outer.children |->
                                  tasks[outer.children[j]].result.roadmap]]
               /\ ready' = Append(rest, [cb |-> "wakeup"])
          ELSE /\ outer' = [outer EXCEPT !.nfinished = @ + 1]
               /\ ready' = rest
    /\ UNCHANGED <<persona_type, duration_months, pc, response_data, tasks, batch_start,
                   monthly_roadmaps, unique_goals, response, dispatched, overtaken>>
    /\ UNCHANGED textVars

\* The endpoint's await of gather raises: the except clause answers.
Endpoint_gather_raises(i) ==
    /\ i \in DOMAIN ready /\ ready[i].cb = "wakeup"
    /\ pc = "await_gather" /\ outer.state = "exception"
    /\ response' = HandleException(outer.exc)
    /\ pc' = "done"
    /\ ready' = RemoveAt(ready, i)
    /\ UNCHANGED <<persona_type, duration_months, response_data, tasks, outer,
                   batch_start, monthly_roadmaps, unique_goals, dispatched, overtaken>>
    /\ UNCHANGED textVars

Endpoint_next_batch_after_failure(i) ==
    /\ i \in DOMAIN ready /\ ready[i].cb = "wakeup"
    /\ pc = "await_gather" /\ outer.state \in {"result", "exception"}
    /\ duration_months >= batch_threshold
    /\ batch_start + batch_size < duration_months + 1
    /\ monthly_roadmaps' = IF outer.state = "result"
                           THEN extend(monthly_roadmaps, outer.results)
                           ELSE monthly_roadmaps
    /\ LET months == batch_months(batch_start + batch_size)
       IN /\ tasks' = [m \in Months |->
                          IF \E j \in DOMAIN months : months[j] = m
                          THEN Pending ELSE tasks[m]]
          /\ ready' = RemoveAt(ready, i)
                        \o [j \in DOMAIN months |-> [cb |-> "step", month |-> months[j]]]
          /\ outer' = [state |-> "pending", nfinished |-> 0, children |-> months]
          /\ dispatched' = dispatched \o months
    /\ batch_start' = batch_start + batch_size
    /\ UNCHANGED <<persona_type, duration_months, pc, response_data, unique_goals,
                   response, overtaken>>
    /\ UNCHANGED textVars

\* The endpoint's await of a batch returns and another batch is left.
Endpoint_next_batch(i) ==
    /\ i \in DOMAIN ready /\ ready[i].cb = "wakeup"
    /\ pc = "await_gather" /\ outer.state = "result"
    /\ duration_months >= batch_threshold
    /\ batch_start + batch_size < duration_months + 1
    /\ monthly_roadmaps' = extend(monthly_roadmaps, outer.results)
    /\ LET months == batch_months(batch_start + batch_size)
       IN /\ tasks' = [m \in Months |->
                          IF \E j \in DOMAIN months : months[j] = m
                          THEN Pending ELSE tasks[m]]
          /\ ready' = RemoveAt(ready, i)
                        \o [j \in DOMAIN months |-> [cb |-> "step", month |-> months[j]]]
          /\ outer' = [state |-> "pending", nfinished |-> 0, children |-> months]
          /\ dispatched' = dispatched \o months
    /\ batch_start' = batch_start + batch_size
    /\ UNCHANGED <<persona_type, duration_months, pc, response_data, unique_goals,
                   response, overtaken>>
    /\ UNCHANGED textVars

\* The endpoint's await of the last group returns: validation and assembly.
Endpoint_assemble(i) ==
    /\ i \in DOMAIN ready /\ ready[i].cb = "wakeup"
    /\ pc = "await_gather" /\ outer.state = "result"
    /\ ~(duration_months >= batch_threshold
         /\ batch_start + batch_size < duration_months + 1)
    /\ LET all == extend(monthly_roadmaps, outer.results)
           validated_roadmaps == [j \in DOMAIN all |-> validate_monthly_roadmap(all[j])]
           goals == remove_duplicates(combine_goals(validated_roadmaps), {})
       IN /\ monthly_roadmaps' = all
          /\ unique_goals' = goals
          /\ response' =
                [status |-> 200, kind |-> "multi",
                 body |-> MultiMonthRoadmap("user", persona_type, duration_months,
                            validated_roadmaps, goals,
                            validated_roadmaps[1].start_date,
                            validated_roadmaps[Len(validated_roadmaps)].end_date)]
    /\ pc' = "done"
    /\ ready' = RemoveAt(ready, i)
    /\ UNCHANGED <<persona_type, duration_months, response_data, tasks, outer,
                   batch_start, dispatched, overtaken>>
    /\ UNCHANGED textVars

Next ==
    \/ Endpoint_reject
    \/ Endpoint_single_month
    \/ Endpoint_dispatch
    \/ \E i \in Runnable : Task_step(i)
    \/ \E i \in Runnable : Gather_done_callback(i)
    \/ \E i \in Runnable : Endpoint_gather_raises(i)
    \/ \E i \in Runnable : Endpoint_next_batch(i)
    \/ \E i \in Runnable : Endpoint_assemble(i)

Spec == Init /\ [][Next]_vars

\* The same program over clients that suspend at their network calls: the
\* steps of the units run in any order. Every behaviour of Spec is one of
\* SpecSuspend, so what SpecSuspend never does, Spec never does.
InitSuspend == InitWith((0..3) \cup (batch_threshold..MaxMonths))

NextSuspend ==
    \/ Endpoint_reject
    \/ Endpoint_single_month
    \/ Endpoint_dispatch
    \/ \E i \in RunnableWhenUnitsSuspend : Task_step(i)
    \/ \E i \in RunnableWhenUnitsSuspend : Gather_done_callback(i)
    \/ \E i \in RunnableWhenUnitsSuspend : Endpoint_gather_raises(i)
    \/ \E i \in RunnableWhenUnitsSuspend : Endpoint_next_batch(i)
    \/ \E i \in RunnableWhenUnitsSuspend : Endpoint_assemble(i)

SpecSuspend == InitSuspend /\ [][NextSuspend]_vars

\* ------------------------------------------- GeminiClient.generate_content
\* One decode of safe_parse_json.
Attempt(stage, text) == [stage |-> stage, text |-> text, result |-> json_loads(text)]

\* A reply has been received and nothing else runs.
InitParse ==
    /\ EndpointInit({"INTJ"}, {1})
    /\ \E reply \in ReplyTexts :
          /\ response_text = reply.text
          /\ reply_is = [kind |-> reply.kind, wrapper |-> reply.wrapper,
                         meant |-> reply.meant, raw |-> reply.raw]
    /\ json_str = <<>>
    /\ attempts = <<>>
    /\ parsed = NotParsed
    /\ parse_pc = "received"
    /\ FormatIdle
    /\ QueryIdle

\* The code fence is taken off the reply.
GenerateContent_strip_fences ==
    /\ parse_pc = "received"
    /\ json_str' = strip_fences(response_text)
    /\ parse_pc' = "safe_parse"
    /\ UNCHANGED <<response_text, reply_is, attempts, parsed>>
    /\ UNCHANGED <<endpointVars, formatVars, queryVars>>

\* First attempt: json.loads(json_str).
SafeParse_direct ==
    /\ parse_pc = "safe_parse" /\ attempts = <<>>
    /\ LET attempt == Attempt("direct", json_str)
       IN /\ attempts' = <<attempt>>
          /\ IF attempt.result.ok
             THEN /\ parsed' = [state |-> "returned", by |-> "safe_parse_json",
                                val |-> attempt.result.val]
                  /\ parse_pc' = "done"
             ELSE UNCHANGED <<parsed, parse_pc>>
    /\ UNCHANGED <<response_text, reply_is, json_str>>
    /\ UNCHANGED <<endpointVars, formatVars, queryVars>>

SafeParse_line_by_line_second ==
    /\ parse_pc = "safe_parse" /\ Len(attempts) = 1
    /\ LET attempt == Attempt("sanitized", sanitize_line_by_line(json_str))
       IN /\ attempts' = Append(attempts, attempt)
          /\ IF attempt.result.ok
             THEN /\ parsed' = [state |-> "returned", by |-> "safe_parse_json",
                                val |-> attempt.result.val]
                  /\ parse_pc' = "done"
             ELSE UNCHANGED <<parsed, parse_pc>>
    /\ UNCHANGED <<response_text, reply_is, json_str>>
    /\ UNCHANGED <<endpointVars, formatVars, queryVars>>

\* Second attempt, after a JSONDecodeError of the first: the sanitized text.
SafeParse_sanitized ==
    /\ parse_pc = "safe_parse" /\ Len(attempts) = 1
    /\ LET attempt == Attempt("sanitized", sanitize_json_string(json_str))
       IN /\ attempts' = Append(attempts, attempt)
          /\ IF attempt.result.ok
             THEN /\ parsed' = [state |-> "returned", by |-> "safe_parse_json",
                                val |-> attempt.result.val]
                  /\ parse_pc' = "done"
             ELSE UNCHANGED <<parsed, parse_pc>>
    /\ UNCHANGED <<response_text, reply_is, json_str>>
    /\ UNCHANGED <<endpointVars, formatVars, queryVars>>

\* Third attempt, after a JSONDecodeError of the second: the text rebuilt line
\* by line; its JSONDecodeError becomes the ValueError of safe_parse_json.
SafeParse_line_by_line ==
    /\ parse_pc = "safe_parse" /\ Len(attempts) = 2
    /\ LET attempt == Attempt("line_by_line", sanitize_line_by_line(json_str))
       IN /\ attempts' = Append(attempts, attempt)
          /\ IF attempt.result.ok
             THEN /\ parsed' = [state |-> "returned", by |-> "safe_parse_json",
                                val |-> attempt.result.val]
                  /\ parse_pc' = "done"
             ELSE /\ parsed' = [state |-> "raised", by |-> "safe_parse_json",
                                error |-> ParseAttemptsError(attempt.result.error)]
                  /\ parse_pc' = "last_resort"
    /\ UNCHANGED <<response_text, reply_is, json_str>>
    /\ UNCHANGED <<endpointVars, formatVars, queryVars>>

\* generate_content, after safe_parse_json raised: one more decode of the
\* sanitized text, then the exception that leaves generate_content.
GenerateContent_last_resort ==
    /\ parse_pc = "last_resort"
    /\ LET last == json_loads(sanitize_json_string(json_str))
       IN parsed' = IF last.ok
                    THEN [state |-> "returned", by |-> "generate_content",
                          val |-> last.val]
                    ELSE [state |-> "raised", by |-> "generate_content",
                          error |-> GenerateContentError(ParseResponseError(parsed.error))]
    /\ parse_pc' = "done"
    /\ UNCHANGED <<response_text, reply_is, json_str, attempts>>
    /\ UNCHANGED <<endpointVars, formatVars, queryVars>>

NextParse ==
    \/ GenerateContent_strip_fences
    \/ SafeParse_direct
    \/ SafeParse_sanitized
    \/ SafeParse_line_by_line
    \/ GenerateContent_last_resort

SpecParse == InitParse /\ [][NextParse]_vars

\* ------------------------------------------------ one activity, pass by pass
\* The activity of one quest on its way to the response: format_activity in
\* the quest loop, then in the validate_monthly_roadmap of the service and in
\* that of the endpoint.
InitFormat ==
    /\ EndpointInit({"INTJ"}, {1})
    /\ ParserIdle
    /\ QueryIdle
    /\ activity \in Activities
    /\ practice = <<>>
    /\ format_pc = "quest"

\* validate_monthly_roadmap on one task: a practice that is not empty is
\* formatted once more.
validate_practice(task_practice) ==
    IF task_practice # <<>> THEN format_activity(JStr(task_practice)) ELSE task_practice

\* The quest loop: formatted_activity = format_activity(activity).
ProcessQuest_format_activity ==
    /\ format_pc = "quest"
    /\ practice' = format_activity(activity)
    /\ format_pc' = "month"
    /\ UNCHANGED <<activity, endpointVars, parserVars, queryVars>>

\* generate_weekly_roadmap returns validate_monthly_roadmap(roadmap).
Service_validate_monthly_roadmap ==
    /\ format_pc = "month"
    /\ practice' = validate_practice(practice)
    /\ format_pc' = "endpoint"
    /\ UNCHANGED <<activity, endpointVars, parserVars, queryVars>>

\* The endpoint validates the roadmap once more before it answers.
Endpoint_validate_monthly_roadmap ==
    /\ format_pc = "endpoint"
    /\ practice' = validate_practice(practice)
    /\ format_pc' = "done"
    /\ UNCHANGED <<activity, endpointVars, parserVars, queryVars>>

NextFormat ==
    \/ ProcessQuest_format_activity
    \/ Service_validate_monthly_roadmap
    \/ Endpoint_validate_monthly_roadmap

SpecFormat == InitFormat /\ [][NextFormat]_vars

\* --------------------------------------------- one call that enriches a task
\* enrich_resources_with_web_search of either generator service is called for
\* one task of a reply.
InitQuery ==
    /\ EndpointInit({"INTJ"}, {1})
    /\ ParserIdle
    /\ FormatIdle
    /\ \/ /\ query_pc = "weekly"
          /\ enrich_call \in [service : {"weekly"}, task_name : TaskNameValues,
                               practice : PracticeValues, current_month : 1..MaxMonths]
       \/ /\ query_pc = "roadmap"
          /\ enrich_call \in [service : {"roadmap"}, task_title : TaskNameValues,
                               task_description : DescriptionValues]
    /\ queries = <<>>

\* WeeklyRoadmapGeneratorService.enrich_resources_with_web_search up to its
\* call of search().
Weekly_enrich_resources ==
    /\ query_pc = "weekly"
    /\ queries' = IF weekly_query_raises(enrich_call.task_name) THEN queries
                  ELSE Append(queries,
                              weekly_search_query(enrich_call.task_name, enrich_call.practice,
                                                  enrich_call.current_month))
    /\ query_pc' = "done"
    /\ UNCHANGED <<enrich_call, endpointVars, parserVars, formatVars>>

\* RoadmapGeneratorService.enrich_resources_with_web_search up to its call of
\* search().
Roadmap_enrich_resources ==
    /\ query_pc = "roadmap"
    /\ queries' = Append(queries, roadmap_search_query(enrich_call.task_title,
                                                       enrich_call.task_description))
    /\ query_pc' = "done"
    /\ UNCHANGED <<enrich_call, endpointVars, parserVars, formatVars>>

NextQuery ==
    \/ Weekly_enrich_resources
    \/ Roadmap_enrich_resources

SpecQuery == InitQuery /\ [][NextQuery]_vars

\* ================================================================ the claims
UnitsDone == {m \in Months : tasks[m].state = "done"}
\* The units that got a document with both top-level fields and a list of weeks.
UnitsWithWeeks ==
    {m \in UnitsDone :
        /\ response_data[m].k = "doc"
        /\ TopFields \subseteq response_data[m].has
        /\ response_data[m].weeks.k = "list"}
ResultOf(m) == tasks[m].result
WeeksGiven(m) == response_data[m].weeks.items

HasAllTaskFields(quest) == RequiredTaskFields \subseteq quest.has
\* A quest with its five fields whose values the task model takes.
QuestSurvives(quest) ==
    /\ HasAllTaskFields(quest)
    /\ quest.task_name.k = "str" /\ quest.time_slot.k = "str"
    /\ quest.time_commitment.k = "str"
LacksWeekField(week) == \E f \in RequiredWeekFields : f \notin week.has
\* A week with its three fields, an integer week_number and a surviving quest.
WeekSurvives(week) ==
    /\ ~LacksWeekField(week)
    /\ week.week_number.k = "int"
    /\ week.quests.k = "list"
    /\ \E i \in DOMAIN week.quests.items : QuestSurvives(week.quests.items[i])
Survivors(m) == SelectSeq(WeeksGiven(m), WeekSurvives)
GoalsAreStrings(m) ==
    /\ response_data[m].overall_goals.k = "list"
    /\ \A i \in DOMAIN response_data[m].overall_goals.items :
          response_data[m].overall_goals.items[i].k = "str"
WeekNumbers(weeks) == [i \in DOMAIN weeks |-> weeks[i].week_number]
TaskNames(tasks_) == [i \in DOMAIN tasks_ |-> tasks_[i].task_name]

\* C1: a week that lacks week_number, theme or quests is dropped and does not
\* abort the month: the roadmap returned holds exactly the surviving weeks, in
\* their input order, each with the week_number it came with.
C1_WeeksDroppedNotFatal ==
    \A m \in UnitsWithWeeks :
        /\ (Survivors(m) # <<>> /\ GoalsAreStrings(m)) => ResultOf(m).ok
        /\ ResultOf(m).ok =>
            /\ WeekNumbers(ResultOf(m).roadmap.weeks)
                 = [i \in DOMAIN Survivors(m) |-> Survivors(m)[i].week_number.n]
            /\ \A i \in DOMAIN WeeksGiven(m) :
                  (LacksWeekField(WeeksGiven(m)[i]) /\ WeeksGiven(m)[i].week_number.k = "int")
                  => \A j \in DOMAIN ResultOf(m).roadmap.weeks :
                        ResultOf(m).roadmap.weeks[j].week_number
                          # WeeksGiven(m)[i].week_number.n

\* Three weeks 5, 6, 7 of which week 6 has no theme: weeks 5 and 7 are returned.
C1_Witness ==
    \E m \in UnitsWithWeeks :
        /\ Len(WeeksGiven(m)) = 3
        /\ "theme" \notin WeeksGiven(m)[2].has
        /\ ResultOf(m).ok
        /\ WeekNumbers(ResultOf(m).roadmap.weeks) = <<5, 7>>

\* C2 as stated: the tasks of a returned week are exactly the quests that have
\* all five fields, in input order.
C2_TasksAreQuestsWithAllFields ==
    \A m \in UnitsWithWeeks :
        ResultOf(m).ok =>
            \A j \in DOMAIN ResultOf(m).roadmap.weeks :
                Len(ResultOf(m).roadmap.weeks[j].tasks)
                  = Len(SelectSeq(Survivors(m)[j].quests.items, HasAllTaskFields))

\* C2, amended: the tasks of a returned week are exactly the quests that have all
\* five fields with string task_name, time_slot and time_commitment, in input
\* order; a dropped quest drops no sibling.
C2_TasksAreSurvivingQuests ==
    \A m \in UnitsWithWeeks :
        ResultOf(m).ok =>
            /\ Len(ResultOf(m).roadmap.weeks) = Len(Survivors(m))
            /\ \A j \in DOMAIN ResultOf(m).roadmap.weeks :
                  LET kept == SelectSeq(Survivors(m)[j].quests.items, QuestSurvives)
                  IN TaskNames(ResultOf(m).roadmap.weeks[j].tasks)
                       = [i \in DOMAIN kept |-> kept[i].task_name.s]

\* A quest without activity is dropped and the quest after it is kept.
C2_Witness ==
    \E m \in UnitsWithWeeks :
        /\ ResultOf(m).ok
        /\ WeeksGiven(m)[1].quests.k = "list"
        /\ WeeksGiven(m)[1].quests.items = <<QMissing("activity"), Q2>>
        /\ TaskNames(ResultOf(m).roadmap.weeks[1].tasks) = <<"t2">>

WellFormed(roadmap) ==
    /\ roadmap.weeks # <<>>
    /\ \A w \in DOMAIN roadmap.weeks : roadmap.weeks[w].tasks # <<>>

\* C3: every MonthlyRoadmap returned, by a unit or inside the endpoint's single
\* or multi-month answer, has at least one week and every week has a task.
C3_NoEmptyWeekOrMonth ==
    /\ \A m \in UnitsDone : ResultOf(m).ok => WellFormed(ResultOf(m).roadmap)
    /\ (response.status = 200 /\ response.kind = "monthly") => WellFormed(response.body)
    /\ (response.status = 200 /\ response.kind = "multi") =>
          \A i \in DOMAIN response.body.monthly_roadmaps :
              WellFormed(response.body.monthly_roadmaps[i])

\* A multi-month answer one of whose months was given a week with no surviving
\* quest, next to a good week.
C3_Witness ==
    /\ response.status = 200 /\ response.kind = "multi"
    /\ \E m \in UnitsWithWeeks :
          /\ \E i \in DOMAIN WeeksGiven(m) :
                /\ ~LacksWeekField(WeeksGiven(m)[i])
                /\ WeeksGiven(m)[i].quests.k = "list"
                /\ WeeksGiven(m)[i].quests.items # <<>>
                /\ ~WeekSurvives(WeeksGiven(m)[i])
          /\ Len(response.body.monthly_roadmaps[m].weeks) = 1

\* C4: the generation of a month fails, and returns no roadmap, when the
\* document lacks weeks or overall_goals, when weeks is empty and when every
\* week was dropped.
C4_EmptyMonthFails ==
    \A m \in UnitsDone :
        (/\ response_data[m].k = "doc"
         /\ \/ "weeks" \notin response_data[m].has
            \/ "overall_goals" \notin response_data[m].has
            \/ (response_data[m].weeks.k = "list" /\ Survivors(m) = <<>>))
        => (~ResultOf(m).ok /\ "roadmap" \notin DOMAIN ResultOf(m))

\* Weeks were given and every one of them was dropped.
C4_Witness ==
    \E m \in UnitsWithWeeks :
        /\ Len(WeeksGiven(m)) >= 2
        /\ Survivors(m) = <<>>
        /\ ~ResultOf(m).ok

\* C5 as stated: with weeks and overall_goals present and a surviving week, a
\* MonthlyRoadmap is returned whatever the shape of overall_goals.
C5_FailsOnlyWhenMonthEmpty ==
    \A m \in UnitsWithWeeks : Survivors(m) # <<>> => ResultOf(m).ok

ScalarText(v) == IF v.k = "str" THEN v.s ELSE ToString(v.n)
\* The goals of one category: the elements of a list, "<category>: <value>" for
\* a string or a number, nothing for null.
TaggedGoals(pair) ==
    IF pair.val.k = "list" THEN pair.val.items
    ELSE IF pair.val.k = "null" THEN <<>>
    ELSE <<JStr(pair.key \o ": " \o ScalarText(pair.val))>>
\* The same, but a category that is neither a list nor a string gives nothing.
TaggedStringGoals(pair) ==
    IF pair.val.k = "list" THEN pair.val.items
    ELSE IF pair.val.k = "str" THEN <<JStr(pair.key \o ": " \o pair.val.s)>>
    ELSE <<>>
GoalsByClaim(raw) ==
    IF raw.k = "list" THEN raw.items
    ELSE IF raw.k = "dict"
    THEN IF Len(raw.pairs) = 0 THEN <<>>
         ELSE IF Len(raw.pairs) = 1 THEN TaggedGoals(raw.pairs[1])
         ELSE TaggedGoals(raw.pairs[1]) \o TaggedGoals(raw.pairs[2])
    ELSE <<>>
GoalsAmended(raw) ==
    IF raw.k = "list" THEN raw.items
    ELSE IF raw.k = "dict"
    THEN IF Len(raw.pairs) = 0 THEN <<>>
         ELSE IF Len(raw.pairs) = 1 THEN TaggedStringGoals(raw.pairs[1])
         ELSE TaggedStringGoals(raw.pairs[1]) \o TaggedStringGoals(raw.pairs[2])
    ELSE <<>>
Strings(items) == [i \in DOMAIN items |-> items[i].s]

\* C6 as stated: a list is used as it is, a mapping is flattened in category
\* order, a scalar category giving "<category>: <value>", any other shape gives
\* the empty sequence.
C6_ScalarCategoriesTagged ==
    \A m \in UnitsWithWeeks :
        ResultOf(m).ok =>
            ResultOf(m).roadmap.overall_goals
              = Strings(GoalsByClaim(response_data[m].overall_goals))

\* C6, amended: only a string category gives "<category>: <value>"; a category
\* that is neither a list nor a string gives nothing.
C6_StringCategoriesTagged ==
    \A m \in UnitsWithWeeks :
        ResultOf(m).ok =>
            ResultOf(m).roadmap.overall_goals
              = Strings(GoalsAmended(response_data[m].overall_goals))

\* {"short_term": ["a","b"], "long_term": "c"} gives ["a", "b", "long_term: c"].
C6_Witness ==
    \E m \in UnitsWithWeeks :
        /\ response_data[m].overall_goals
             = JDict(<<[key |-> "short_term", val |-> JList(<<JStr("a"), JStr("b")>>)],
                       [key |-> "long_term", val |-> JStr("c")]>>)
        /\ ResultOf(m).ok
        /\ ResultOf(m).roadmap.overall_goals = <<"a", "b", "long_term: c">>

\* The first occurrences of the months' goals, in month order.
FirstOccurrences(goals) ==
    SelectSeq([i \in DOMAIN goals |-> [at |-> i, goal |-> goals[i]]],
              LAMBDA e : \A j \in 1..(e.at - 1) : goals[j] # e.goal)
AllGoals(roadmaps) ==
    IF Len(roadmaps) = 2
    THEN roadmaps[1].overall_goals \o roadmaps[2].overall_goals
    ELSE combine_goals(roadmaps)

\* C7: the MultiMonthRoadmap returned carries combined_goals, the months' goals
\* in month order without the later duplicates.
C7_CombinedGoalsReturned ==
    (response.status = 200 /\ response.kind = "multi") =>
        /\ "combined_goals" \in DOMAIN response.body
        /\ response.body.combined_goals
             = [i \in DOMAIN FirstOccurrences(AllGoals(response.body.monthly_roadmaps)) |->
                  FirstOccurrences(AllGoals(response.body.monthly_roadmaps))[i].goal]

\* C8: whatever the order in which the units finish, the answer to a request of
\* N months holds N roadmaps, the i-th being that of month i, and runs from the
\* start of month 1 to the end of month N, gathered at once or in batches of 6.
C8_MonthsInSubmissionOrder ==
    (response.status = 200 /\ response.kind = "multi") =>
        /\ Len(response.body.monthly_roadmaps) = duration_months
        /\ \A i \in Months :
              /\ response.body.monthly_roadmaps[i].requested_month = i
              /\ response.body.monthly_roadmaps[i].start_date = 30 * (i - 1)
              /\ response.body.monthly_roadmaps[i].weeks
                   = validate_monthly_roadmap(ResultOf(i).roadmap).weeks
              /\ response.body.monthly_roadmaps[i].overall_goals
                   = ResultOf(i).roadmap.overall_goals
        /\ response.body.start_date = 0
        /\ response.body.end_date = 30 * duration_months

\* A batched request answered after a unit finished before an earlier one.
C8_Witness ==
    /\ response.status = 200 /\ response.kind = "multi"
    /\ duration_months >= 12
    /\ overtaken

BatchOf(m) == (m - 1) \div 6

\* C9: in a request of 12 months or more, no unit of a batch is created before
\* every unit of the batches before it has finished, at most 6 units are
\* outstanding, and the batches cover the months 1..N once each, ascending.
C9_BatchesOneAtATime ==
    duration_months >= 12 =>
        /\ Cardinality(Outstanding) <= 6
        /\ \A i \in DOMAIN dispatched : dispatched[i] = i
        /\ \A i, j \in DOMAIN dispatched :
              BatchOf(dispatched[i]) < BatchOf(dispatched[j])
              => tasks[dispatched[i]].state = "done"
        /\ (response.status = 200 => Len(dispatched) = duration_months)

\* The second batch is outstanding, whole.
C9_Witness ==
    /\ duration_months >= 12
    /\ Len(dispatched) = 12
    /\ Cardinality(Outstanding) = 6
    /\ overtaken

\* C10: when a unit of a group fails, its siblings are not aborted, and the
\* endpoint answers with the failure only after every unit of the group has
\* finished or failed.
C10_FailureAfterJoin ==
    response.status = 500 =>
        \A i \in DOMAIN dispatched : tasks[dispatched[i]].state = "done"

\* The first unit of a group failed and a sibling finished well after it.
C10_Witness ==
    /\ response.status = 500
    /\ duration_months >= 12
    /\ \E m, n \in UnitsDone :
          /\ m < n
          /\ ~ResultOf(m).ok
          /\ ResultOf(n).ok

\* C11: in a request of several months the failure of one month is not
\* swallowed: once a unit has failed the request is never answered with a
\* roadmap, the request ends with the failure, and a MultiMonthRoadmap is
\* assembled only from the results of all its months, every unit having
\* succeeded.
C11_MonthFailureFailsRequest ==
    duration_months > 1 =>
        /\ (\E m \in UnitsDone : ~ResultOf(m).ok) => response.status # 200
        /\ (pc = "done" /\ persona_type # "" /\ \E m \in UnitsDone : ~ResultOf(m).ok)
              => response.status = 500
        /\ response.status = 200 =>
              /\ UnitsDone = Months
              /\ \A m \in Months : ResultOf(m).ok
              /\ Len(response.body.monthly_roadmaps) = duration_months

\* A request of several months answered with the failure of one month, another
\* month having succeeded.
C11_Witness ==
    /\ duration_months > 1
    /\ response.status = 500
    /\ \E m, n \in UnitsDone : ~ResultOf(m).ok /\ ResultOf(n).ok

\* The result the unit of month m would give had every search found urls.
WithSearchSucceeding(quest) == [quest EXCEPT !.search = "urls"]
SearchFails(quest) == quest.search \in {"raises", "no_key", "empty"}

AnsweredWithFailureOf(m) ==
    /\ response.status = 500
    /\ m \in UnitsDone
    /\ ~ResultOf(m).ok
    /\ response.error = ResultOf(m).error

\* C20 as stated: a request that fails because the call of the AI failed on
\* the API key is answered in the category "API key error", one that fails
\* because no attempt could parse the reply in the category "Error parsing AI
\* response", and neither in another category.
C20_FailureCategories ==
    \A m \in Months :
        (AnsweredWithFailureOf(m) /\ response_data[m].k = "raise") =>
            /\ response_data[m].cause = "api_key"
                  => response.category = "API key error"
            /\ response_data[m].cause = "parse"
                  => response.category = "Error parsing AI response"

\* The stages of safe_parse_json, in order, and the text each one decodes.
Stages == <<"direct", "sanitized", "line_by_line">>
StageText(k) ==
    CASE k = 1 -> json_str
      [] k = 2 -> sanitize_json_string(json_str)
      [] OTHER -> sanitize_line_by_line(json_str)
SafeParseReturned == parsed # NotParsed /\ parsed.state = "returned" /\ parsed.by = "safe_parse_json"
SafeParseRaised == parsed # NotParsed /\ parsed.state = "raised"

\* C12: safe_parse_json is an ordered cascade that stops at the first success:
\* the decodes made are, in order, that of the text, of the sanitized text and
\* of the text rebuilt line by line; a stage runs only when every stage before
\* it failed; the result is that of the first stage that decodes, nothing runs
\* after it, and safe_parse_json raises only after the three stages failed.
C12_FallbackCascade ==
    /\ Len(attempts) <= 3
    /\ \A k \in DOMAIN attempts :
          /\ attempts[k].stage = Stages[k]
          /\ attempts[k].text = StageText(k)
          /\ \A j \in 1..(k - 1) : ~attempts[j].result.ok
    /\ (attempts # <<>> /\ attempts[Len(attempts)].result.ok) =>
          /\ SafeParseReturned
          /\ parsed.val = attempts[Len(attempts)].result.val
    /\ SafeParseReturned =>
          parsed.val = IF json_loads(StageText(1)).ok THEN json_loads(StageText(1)).val
                       ELSE IF json_loads(StageText(2)).ok THEN json_loads(StageText(2)).val
                       ELSE json_loads(StageText(3)).val
    /\ SafeParseRaised =>
          /\ Len(attempts) = 3
          /\ \A k \in 1..3 : ~json_loads(StageText(k)).ok

\* The line-oriented stage decoded a reply the two stages before it could not.
C12_Witness ==
    /\ Len(attempts) = 3
    /\ ~attempts[1].result.ok /\ ~attempts[2].result.ok
    /\ attempts[3].result.ok
    /\ SafeParseReturned

\* C13 as stated: when the three attempts fail, the error raised carries the
\* decode error of the line-oriented attempt and the offending text.
C13_ErrorCarriesDecodeErrorAndText ==
    SafeParseRaised =>
        /\ Contains(attempts[3].result.error, parsed.error)
        /\ Contains(json_str, parsed.error)

\* C14 as stated: for every well-formed JSON text, also one whose strings hold
\* triple backquotes, generate_content's fence stripping followed by
\* safe_parse_json gives the document a direct decode of the text gives, and
\* neither sanitizer runs.
C14_RoundTrip ==
    (parse_pc = "done" /\ reply_is.kind = "well") =>
        /\ parsed.state = "returned"
        /\ parsed.val = reply_is.meant
        /\ reply_is.wrapper = "bare" => parsed.val = json_loads(response_text).val
        /\ Len(attempts) = 1

\* C15 as stated: a text that is well formed but for one activity value holding
\* a raw newline and an unescaped double quote, wherever the quote is, is
\* recovered whole by the sanitize-then-retry stage, the activity text kept, and
\* the line-oriented stage is not reached.
C15_Recovery ==
    (parse_pc = "done" /\ reply_is.kind = "newline_quote") =>
        /\ parsed.state = "returned"
        /\ parsed.val = reply_is.meant
        /\ Len(attempts) = 2

\* line is the step numbered number: the number, a dot, a whitespace character.
IsStepNumbered(line, number) ==
    /\ startswith(line, str_of_int(number) \o <<".">>)
    /\ Len(line) > Len(str_of_int(number)) + 1
    /\ line[Len(str_of_int(number)) + 2] \in Whitespace

\* text is normalized: its lines are the steps numbered 1, 2, 3, ... in that
\* order, none of them blank; the empty text has no step.
IsNormalized(text) ==
    \/ text = <<>>
    \/ LET lines == split(text, <<NL>>)
       IN \A i \in DOMAIN lines : IsStepNumbered(lines[i], i)

\* The quest loop has formatted the activity, and no later pass has run.
FormattedOnce == format_pc = "month"

\* C16 as stated: whatever the activity is, what format_activity returns is
\* normalized, its lines numbered 1, 2, 3, ... without a gap or a repeat, also
\* when the activity carries numbers that start above 1, skip or repeat.
C16_OutputNumberedFromOne ==
    FormattedOnce => IsNormalized(practice)

\* C17 as stated: format_activity returns a normalized activity string
\* unchanged, also one of more than ten steps and one whose step text holds a
\* digit, a dot and a space.
C17_Idempotence ==
    (FormattedOnce /\ activity.k = "str" /\ IsNormalized(activity.s))
        => practice = activity.s

\* C18 as stated: format_activity makes of "Do the thing. Then 2. do another"
\* a text of two lines, the steps numbered 1 and 2.
C18_NumberingRepair ==
    (FormattedOnce /\ activity = JStr(EmbeddedMarker))
        => /\ Len(split(practice, <<NL>>)) = 2
           /\ IsNormalized(practice)

\* C21 as stated: every query a generator service passes to search() has at
\* most 390 characters, whatever the task name, the activity or description
\* and the month.
C21_QueriesCapped ==
    \A i \in DOMAIN queries : Len(queries[i]) <= QueryLimit

\* The place of the first character of the activity value in text: after the
\* key "activity":, the whitespace that follows it and the opening quote.
RECURSIVE SkipSpaces(_, _)
SkipSpaces(text, i) ==
    IF i <= Len(text) /\ text[i] \in Whitespace THEN SkipSpaces(text, i + 1) ELSE i
ValueAt(text) == SkipSpaces(text, find(text, ActivityKey) + Len(ActivityKey)) + 1

\* The escape of a character fix_activity escapes.
Escaped(c) == IF c = NL THEN <<BS, "n">> ELSE <<BS, c>>

\* inside is raw with some of its backslashes, newlines and double quotes
\* escaped and nothing else changed.
RECURSIVE OnlyReescaped(_, _)
OnlyReescaped(raw, inside) ==
    IF raw = <<>> THEN inside = <<>>
    ELSE \/ /\ inside # <<>> /\ Head(inside) = Head(raw)
            /\ OnlyReescaped(Tail(raw), Tail(inside))
         \/ /\ Head(raw) \in {BS, NL, QT}
            /\ startswith(inside, Escaped(Head(raw)))
            /\ OnlyReescaped(Tail(raw), SubSeq(inside, 3, Len(inside)))

\* The text given to sanitize_json_string is a document whose activity value
\* is the text the reply was built with, and it holds no carriage return and
\* none of the stripped control characters.
SanitizerGivenDocument ==
    /\ Len(attempts) >= 2
    /\ reply_is.kind \notin {"garbage", "tab"}
    /\ find(json_str, ActivityKey) # 0
    /\ SubSeq(json_str, ValueAt(json_str), ValueAt(json_str) + Len(reply_is.raw) - 1)
          = reply_is.raw

\* out is text with nothing changed before the activity value (the opening
\* quote included) and nothing after it (the closing quote included), and
\* with the value only re-escaped.
OnlyValueReescaped(text, raw, out) ==
    LET before == SubSeq(text, 1, ValueAt(text) - 1)
        after == SubSeq(text, ValueAt(text) + Len(raw), Len(text))
    IN /\ Len(out) >= Len(before) + Len(after)
       /\ startswith(out, before)
       /\ endswith(out, after)
       /\ OnlyReescaped(raw, SubSeq(out, Len(before) + 1, Len(out) - Len(after)))

\* C22 as stated: sanitize_json_string changes nothing outside the activity
\* value, the whitespace after the colon and the other fields included, and
\* inside the value it only re-escapes backslashes, newlines and double quotes.
C22_OnlyActivityValueChanged ==
    SanitizerGivenDocument =>
        OnlyValueReescaped(json_str, reply_is.raw, attempts[2].text)

\* The number a numbered line starts with, as its digits.
NumberOf(line) == SubSeq(line, 1, LeadingDigits(line))

\* The activity as format_activity tests it: line endings normalized, control
\* characters removed.
Cleaned(text) ==
    remove(replace(replace(text, <<CR, NL>>, <<NL>>), <<CR>>, <<NL>>), StrippedControls)

\* The activity is a string that takes the branch for formatted activities,
\* and the only digit-dot-space of each of its steps is the step's number.
OnlyStepNumbers ==
    /\ activity.k = "str"
    /\ validate_activity_format(Cleaned(activity.s))
    /\ \A i \in DOMAIN StrippedLines(Cleaned(activity.s)) :
          count(StrippedLines(Cleaned(activity.s))[i], <<".", " ">>) <= 1

\* C23 as stated: in the branch for formatted activities every step comes out
\* as one line that starts with its whole number, also the numbers 10, 11,
\* 12, ..., and there are as many lines as steps.
C23_MultiDigitNumbersKept ==
    (FormattedOnce /\ OnlyStepNumbers) =>
        LET steps == StrippedLines(Cleaned(activity.s))
            lines == split(practice, <<NL>>)
        IN /\ Len(lines) = Len(steps)
           /\ \A i \in DOMAIN steps :
                 /\ StartsWithNumber(lines[i])
                 /\ NumberOf(lines[i]) = NumberOf(steps[i])

\* The content of a line of the text: the line stripped, without the key
\* "activity": and the opening quote when it holds the key, without its last
\* character when that is a double quote, and with the double quotes left in
\* it escaped.
LineContent(line) ==
    LET stripped == strip(line)
        value == IF In(ActivityKey, stripped)
                 THEN lstrip(strip(split_once(stripped, ActivityKey)[2]), {QT})
                 ELSE stripped
        open == IF endswith(value, <<QT>>) THEN SubSeq(value, 1, Len(value) - 1) ELSE value
    IN replace(open, <<QT>>, <<BS, QT>>)

\* The line is in out: as it is but for the whitespace around it, or as a part
\* of an activity field, its content after the key when it holds the key.
LineKept(line, out) ==
    \/ In(strip(line), out)
    \/ /\ In(LineContent(line), out)
       /\ In(ActivityKey, line) => In(ActivityKey \o <<" ", QT>>, out)

\* The third stage has run: attempts[3].text is sanitize_line_by_line(json_str).
LineByLineRan == Len(attempts) = 3

\* C24 as stated: sanitize_line_by_line emits the lines outside an activity
\* value, and for the lines of an activity value the key, their accumulated
\* content with the quotes escaped and the closing quote, so that the content
\* of no line of the text is missing from what it returns.
C24_NoLineLost ==
    LineByLineRan =>
        \A i \in DOMAIN split(json_str, <<NL>>) :
            LineKept(split(json_str, <<NL>>)[i], attempts[3].text)

\* C25 as stated: the validate_monthly_roadmap pass of the endpoint, over a
\* roadmap generate_weekly_roadmap has formatted and validated, leaves the
\* practice of every task as it was.
C25_EndpointPassChangesNothing ==
    [][format_pc = "endpoint" => practice' = practice]_vars

\* C26: whatever duration_months is, at most 11 units are outstanding at a
\* time: a request of 2 to 11 months creates all its units as one group, a
\* request of 12 months or more creates them in batches of 6, and once a unit
\* of a batch has failed no unit of a later batch is created.
C26_OutstandingBounded ==
    /\ Cardinality(Outstanding) <= 11
    /\ (duration_months >= 2 /\ duration_months < batch_threshold) =>
          /\ Len(dispatched) \in {0, duration_months}
          /\ (pc = "await_gather" /\ outer.state = "pending") =>
                Len(outer.children) = duration_months
    /\ duration_months >= batch_threshold =>
          /\ Cardinality(Outstanding) <= batch_size
          /\ \A i, j \in DOMAIN dispatched :
                (dispatched[i] - 1) \div batch_size < (dispatched[j] - 1) \div batch_size
                => /\ tasks[dispatched[i]].state = "done"
                   /\ tasks[dispatched[i]].result.ok

\* The eleven units of a request of 11 months are outstanding together.
C26_Witness ==
    /\ duration_months = 11
    /\ Cardinality(Outstanding) = 11

====
